---- MODULE Spec2Model ----
(***************************************************************************)
(* Contesso contest tracker: the contest refresh cycle of the Contests     *)
(* page (fetchAndSyncContests), the status classifiers of the Contests and *)
(* Calendar pages, and the bookmark toggles of the page variants, over the *)
(* external store's contests and bookmarks tables.                         *)
(*                                                                         *)
(* Instants are epoch milliseconds.  new Date(ms).toISOString() followed   *)
(* by new Date(iso) returns the same millisecond, so a stored ISO string   *)
(* is represented by the instant it denotes.                               *)
(***************************************************************************)
EXTENDS Integers, Sequences, FiniteSets, TLC

\* ---------------------------------------------------------------- bounds

\* Number of 60 s timer periods the clock may advance.
MaxClock == 2
\* Number of fetchAndSyncContests runs (mount + interval firings) modelled.
MaxRuns == 2
\* Number of toggleBookmark invocations that may be in flight together.
MaxToggles == 2
\* Largest instant of the classifier samples.
MaxT == 4
\* Number of times one batch is applied to the contests table.
MaxApply == 2
\* Number of contests handleAddContest may add.
MaxAdds == 2

\* ------------------------------------------------------- program constants

\* setInterval(fetchAndSyncContests, 60000)
RefreshMs == 60000
\* LeetCode default duration in seconds: contest.duration || 5400
LcDefaultDurationS == 5400
\* LeetCode default duration in minutes: contest.duration ? ... : 90
LcDefaultDurationMin == 90

VARIABLES
    clock,          \* wall clock, ms
    session,        \* auth provider: the signed-in user id, or NoUser
    contestsTable,  \* store: rows of table contests (primary key id)
    bookmarksTable, \* store: rows of table bookmarks (primary key id)
    page,           \* which page component is mounted
    contests,       \* page state: the displayed contest list
    loading,        \* page state: loading flag
    error,          \* page state: error banner
    runs,           \* fetchAndSyncContests invocations, by start order
    userId,         \* page state of part_003: user id read at mount
    bookmarkedIds,  \* page state of part_003: bookmarked contest ids
    toggles,        \* toggleBookmark invocations in flight
    mount,          \* position of the mount effect's fetchData (part_003)
    toast,          \* the last notice shown (toast or alert)
    sample,         \* sampled input of a pure function under test
    seen,           \* what the function returned for the sample
    youtube,        \* syncYouTubeSolutions invocation in flight (part_004)
    isAdmin,        \* page state of part_004: admin controls are shown
    solutionsTable, \* store: rows of table contest_solutions
    playlistsTable, \* store: rows of table youtube_playlists
    isTeamMember,   \* page state of Admin: team access was verified
    playlists,      \* page state of Admin: playlist rows read at mount
    profile,        \* the answer of the profiles read of Admin's fetchData
    syncs           \* syncPlaylist invocations in flight (Admin)

vars == <<clock, session, contestsTable, bookmarksTable, page, contests,
          loading, error, runs, userId, bookmarkedIds, toggles, mount, toast,
          sample, seen, youtube, isAdmin, solutionsTable,
          playlistsTable, isTeamMember, playlists, profile, syncs>>

\* The store table and the page state only the Admin page reads or writes.
adminVars == <<playlistsTable, isTeamMember, playlists, profile, syncs>>

\* The answer of a read not issued yet.
NoProfile == [error |-> FALSE, role |-> "none"]

\* No Admin page is mounted and the playlists table is empty.
NoAdminPage ==
    /\ playlistsTable = {}
    /\ isTeamMember = FALSE
    /\ playlists = {}
    /\ profile = NoProfile
    /\ syncs = <<>>

NoUser == "none"
NoLink == "null"
NoStatus == "absent"
NoError == "null"
NoToast == ""
\* toggleBookmark of part_004 and Calendar.tsx: user?.user?.id ?? 'default_user'
DefaultUser == "default_user"
\* The users who sign in on this browser; other users' rows reach the store
\* from sessions of their own.
Users == {"u1"}
\* The users whose role is 'admin' (user?.user?.role === 'admin').
Admins == {"admin1"}

\* ------------------------------------------------------ status classifier

\* A flipped first comparison (start < now instead of start > now).
StatusOfFlipped(start, end, now) ==
    IF start < now THEN "upcoming"
    ELSE IF end > now THEN "current"
    ELSE "past"

\* part_004: contestStart > now ? 'upcoming' : contestEnd > now ? 'current' : 'past'
StatusOf(start, end, now) ==
    IF start > now THEN "upcoming"
    ELSE IF end > now THEN "current"
    ELSE "past"

\* Calendar.tsx: new Date(contest.start_time) > now ? 'upcoming' : 'past'
CalendarStatusOf(start, now) ==
    IF start > now THEN "upcoming" ELSE "past"

Seen(start, end, now) ==
    [contests |-> StatusOf(start, end, now),
     calendar |-> CalendarStatusOf(start, now)]

\* ------------------------------------------------------ upstream sources

\* Codeforces contest.list entries: {id, name, startTimeSeconds, durationSeconds}.
\* The upstream may rename a contest between two fetches.
CfNames == {"Round 1", "Round 1 (rated)"}
CfRaw(n) == [id |-> "1", name |-> n, startTimeSeconds |-> 60, durationSeconds |-> 60]
\* CodeChef entries: {contest_code, contest_name, contest_start_date, contest_end_date}
CcRaw == [contest_code |-> "START1", contest_name |-> "Starters 1",
          contest_start_date |-> 120000, contest_end_date |-> 180000]
\* LeetCode entries: {titleSlug, title, startTime, duration}; duration 0 stands
\* for a missing duration (falsy in contest.duration || 5400).
LcRaw == [titleSlug |-> "weekly-1", title |-> "Weekly 1", startTime |-> 60, duration |-> 0]

\* What one HTTP fetch can produce: a failure (network error, non-OK status,
\* malformed payload) or a listing.
Failure == [ok |-> FALSE, result |-> {}]
CfUpstream == {Failure} \cup {[ok |-> TRUE, result |-> {CfRaw(n)}] : n \in CfNames}
CcUpstream == {Failure, [ok |-> TRUE, result |-> {CcRaw}]}
LcUpstream == {Failure, [ok |-> TRUE, result |-> {LcRaw}]}

\* ------------------------------------------------------------- normalizer

CfContest(c, now) ==
    [id |-> <<"cf", c.id>>,
     name |-> c.name,
     platform |-> "Codeforces",
     start_time |-> c.startTimeSeconds * 1000,
     end_time |-> (c.startTimeSeconds + c.durationSeconds) * 1000,
     duration |-> c.durationSeconds \div 60,
     solution_link |-> NoLink,
     status |-> StatusOf(c.startTimeSeconds * 1000,
                         (c.startTimeSeconds + c.durationSeconds) * 1000, now)]

CcContest(c, now) ==
    [id |-> <<"cc", c.contest_code>>,
     name |-> c.contest_name,
     platform |-> "CodeChef",
     start_time |-> c.contest_start_date,
     end_time |-> c.contest_end_date,
     duration |-> (c.contest_end_date - c.contest_start_date) \div 60000,
     solution_link |-> NoLink,
     status |-> StatusOf(c.contest_start_date, c.contest_end_date, now)]

LcDuration(c) == IF c.duration # 0 THEN c.duration ELSE LcDefaultDurationS

LcContest(c, now) ==
    [id |-> <<"lc", c.titleSlug>>,
     name |-> c.title,
     platform |-> "LeetCode",
     start_time |-> c.startTime * 1000,
     end_time |-> (c.startTime + LcDuration(c)) * 1000,
     duration |-> IF c.duration # 0 THEN c.duration \div 60 ELSE LcDefaultDurationMin,
     solution_link |-> NoLink,
     status |-> StatusOf(c.startTime * 1000, (c.startTime + LcDuration(c)) * 1000, now)]

\* getTime() of the Invalid Date that new Date(text) gives for text it cannot
\* parse (NaN); toISOString() of an Invalid Date throws a RangeError.
InvalidDate == -1

\* More CodeChef entries: a second contest, one whose end precedes its start
\* and one whose start date does not parse.
CcRaw2 == [contest_code |-> "START2", contest_name |-> "Starters 2",
           contest_start_date |-> 60000, contest_end_date |-> 120000]
CcInverted == [contest_code |-> "INV", contest_name |-> "Inverted",
               contest_start_date |-> 180000, contest_end_date |-> 120000]
CcUnparsable == [contest_code |-> "NAD", contest_name |-> "No date",
                 contest_start_date |-> InvalidDate, contest_end_date |-> 180000]
\* A LeetCode entry whose startTime is not a number.
LcUnparsable == [titleSlug |-> "nad", title |-> "No date", startTime |-> InvalidDate,
                 duration |-> 0]

\* ccContests = [...].map(...) inside try/catch: the RangeError of one entry
\* leaves ccContests at its initial [].
CcContests(result, now) ==
    IF \E c \in result : InvalidDate \in {c.contest_start_date, c.contest_end_date}
    THEN {}
    ELSE {CcContest(c, now) : c \in result}

\* lcContests = lcData.map(...) inside try/catch, likewise.
LcContests(result, now) ==
    IF \E c \in result : c.startTime = InvalidDate
    THEN {}
    ELSE {LcContest(c, now) : c \in result}

\* ------------------------------------------------------------------ store

\* An upsert that deletes the rows in conflict and inserts only the new ids.
UpsertDroppingConflicts(table, batch) ==
    {row \in table : ~ \E b \in batch : b.id = row.id}
      \cup {b \in batch : ~ \E row \in table : row.id = b.id}

\* A sync that mirrors the batch: the table becomes the batch.
UpsertMirroring(table, batch) == batch

\* supabase.from('contests').upsert(rows, { onConflict: 'id' }): a row of the
\* batch replaces the persisted row with its id, every column the batch
\* carries included; rows with other ids stay.
Upsert(table, batch) ==
    {row \in table : ~ \E b \in batch : b.id = row.id} \cup batch

\* A contests row as the Database type declares it (no status column).
CuratedRow ==
    [id |-> <<"cf", "1">>, name |-> "Round 1", platform |-> "Codeforces",
     start_time |-> 60000, end_time |-> 120000, duration |-> 1,
     solution_link |-> "https://video", status |-> NoStatus]

\* A bookmarks row {id, user_id, contest_id}.
BookmarkRow(i, u, c) == [id |-> i, user_id |-> u, contest_id |-> c]

\* The row user u2 saved for cf_1 in a session of their own.
OtherUsersRow == BookmarkRow(<<<<"cf", "1">>, "u2">>, "u2", <<"cf", "1">>)

\* --------------------------------------------------- fetchAndSyncContests

RunIds == 1..MaxRuns

\* A run: its position, the instant it was started at, its now, the three
\* normalized listings, the sources whose fetch has settled and those whose
\* fetch failed, whether its upsert was issued, and the rows it read; quiet
\* records whether no toggleBookmark was pending when the run started.
IdleRun == [pc |-> "idle", started |-> 0, now |-> 0, cf |-> {}, cc |-> {}, lc |-> {},
            settled |-> {}, failed |-> {}, upsert |-> "no", snap |-> {}, quiet |-> TRUE]

Sources == {"Codeforces", "CodeChef", "LeetCode"}

Slots == 1..MaxToggles

\* A syncYouTubeSolutions invocation: its position, the playlists left to
\* list and the video in hand with the contest id its lookup returned.
IdleYoutube == [pc |-> "idle", left |-> <<>>, video |-> "", found |-> <<"", "">>]

\* A toggleBookmark invocation: its position, the contest, the user id and
\* the contest list it captured, the store operation it issued, its result.
IdleToggle == [pc |-> "idle", cid |-> <<"", "">>, userId |-> NoUser, op |-> "none",
               closure |-> {}, failed |-> FALSE]

\* const allContests = [...cfContests, ...ccContests, ...lcContests]
AllContests(run) == run.cf \cup run.cc \cup run.lc

\* syncedContests.map(contest => ({...contest, isBookmarked, status}))
WithBookmarks(rows, bookmarkSet, now) ==
    {[id |-> c.id, name |-> c.name, platform |-> c.platform,
      start_time |-> c.start_time, end_time |-> c.end_time,
      duration |-> c.duration, solution_link |-> c.solution_link,
      status |-> StatusOf(c.start_time, c.end_time, now),
      isBookmarked |-> c.id \in bookmarkSet] : c \in rows}

\* select('contest_id') on bookmarks, without a user filter; a failed call
\* leaves bookmarks undefined and new Set(undefined) is empty.
BookmarkSet(ok) == IF ok THEN {b.contest_id : b \in bookmarksTable} ELSE {}

SyncError == "Failed to fetch or sync contests. Displaying cached data if available."

\* Variables no step of the refresh cycle touches.
SyncFrame ==
    UNCHANGED <<session, page, userId, bookmarkedIds, toggles, mount, toast, sample, seen, youtube, isAdmin, solutionsTable, adminVars>>

\* The mount effect's initialize() and every firing of the 60 s interval
\* call fetchAndSyncContests; the interval does not wait for a run in flight.
StartRun(r) ==
    /\ page = "ContestsSync"
    /\ runs[r].pc = "idle"
    /\ r > 1 => /\ runs[r - 1].pc # "idle"
                /\ clock >= runs[r - 1].started + RefreshMs
    /\ runs' = [runs EXCEPT ![r] = [IdleRun EXCEPT !.pc = "cf", !.started = clock,
                                      !.now = clock,
                                      !.quiet = \A t \in Slots : toggles[t].pc = "idle"]]
    /\ loading' = TRUE
    /\ error' = NoError
    /\ UNCHANGED <<clock, contestsTable, bookmarksTable, contests>>
    /\ SyncFrame

\* Codeforces: a rejected fetch or status != 'OK' throws into the outer catch,
\* which sets the error and takes a new now.
FetchCodeforces(r) ==
    /\ runs[r].pc = "cf"
    /\ \E resp \in CfUpstream :
         IF resp.ok
         THEN /\ runs' = [runs EXCEPT ![r].pc = "cc",
                             ![r].cf = {CfContest(c, runs[r].now) : c \in resp.result},
                             ![r].settled = {"Codeforces"}]
              /\ error' = error
         ELSE /\ runs' = [runs EXCEPT ![r].pc = "cached", ![r].now = clock,
                             ![r].settled = {"Codeforces"}, ![r].failed = {"Codeforces"}]
              /\ error' = SyncError
    /\ UNCHANGED <<clock, contestsTable, bookmarksTable, contests, loading>>
    /\ SyncFrame

\* CodeChef: wrapped in its own try/catch; a failure leaves ccContests empty.
FetchCodeChef(r) ==
    /\ runs[r].pc = "cc"
    /\ \E resp \in CcUpstream :
         runs' = [runs EXCEPT ![r].pc = "lc",
                     ![r].cc = CcContests(resp.result, runs[r].now),
                     ![r].settled = @ \cup {"CodeChef"},
                     ![r].failed = IF resp.ok THEN @ ELSE @ \cup {"CodeChef"}]
    /\ UNCHANGED <<clock, contestsTable, bookmarksTable, contests, loading, error>>
    /\ SyncFrame

\* LeetCode: wrapped in its own try/catch; a failure leaves lcContests empty.
FetchLeetCode(r) ==
    /\ runs[r].pc = "lc"
    /\ \E resp \in LcUpstream :
         runs' = [runs EXCEPT ![r].pc = "upsert",
                     ![r].lc = LcContests(resp.result, runs[r].now),
                     ![r].settled = @ \cup {"LeetCode"},
                     ![r].failed = IF resp.ok THEN @ ELSE @ \cup {"LeetCode"}]
    /\ UNCHANGED <<clock, contestsTable, bookmarksTable, contests, loading, error>>
    /\ SyncFrame

\* await supabase.from('contests').upsert(allContests, { onConflict: 'id' });
\* the result's error is not read.
UpsertContests(r) ==
    /\ runs[r].pc = "upsert"
    /\ \E ok \in BOOLEAN :
         /\ contestsTable' = IF ok THEN Upsert(contestsTable, AllContests(runs[r]))
                                   ELSE contestsTable
         /\ runs' = [runs EXCEPT ![r].pc = "select",
                        ![r].upsert = IF ok THEN "ok" ELSE "failed"]
    /\ UNCHANGED <<clock, bookmarksTable, contests, loading, error>>
    /\ SyncFrame

\* select('*') on contests; if (fetchError) throw fetchError.
SelectContests(r) ==
    /\ runs[r].pc = "select"
    /\ \E ok \in BOOLEAN :
         IF ok
         THEN /\ runs' = [runs EXCEPT ![r].pc = "bookmarks", ![r].snap = contestsTable]
              /\ error' = error
         ELSE /\ runs' = [runs EXCEPT ![r].pc = "cached", ![r].now = clock]
              /\ error' = SyncError
    /\ UNCHANGED <<clock, contestsTable, bookmarksTable, contests, loading>>
    /\ SyncFrame

\* select('contest_id') on bookmarks, setContests(contestsWithBookmarks),
\* finally setLoading(false).
PublishContests(r) ==
    /\ runs[r].pc = "bookmarks"
    /\ \E ok \in BOOLEAN :
         contests' = WithBookmarks(runs[r].snap, BookmarkSet(ok), runs[r].now)
    /\ runs' = [runs EXCEPT ![r].pc = "done", ![r].snap = {}]
    /\ loading' = FALSE
    /\ UNCHANGED <<clock, contestsTable, bookmarksTable, error>>
    /\ SyncFrame

\* catch: select('*') on contests; without data nothing is displayed anew.
SelectCached(r) ==
    /\ runs[r].pc = "cached"
    /\ \E ok \in BOOLEAN :
         IF ok
         THEN /\ runs' = [runs EXCEPT ![r].pc = "cachedBookmarks", ![r].snap = contestsTable]
              /\ loading' = loading
         ELSE /\ runs' = [runs EXCEPT ![r].pc = "done"]
              /\ loading' = FALSE
    /\ UNCHANGED <<clock, contestsTable, bookmarksTable, contests, error>>
    /\ SyncFrame

\* catch: select('contest_id') on bookmarks, setContests(cachedContests.map(...)),
\* finally setLoading(false).
PublishCached(r) ==
    /\ runs[r].pc = "cachedBookmarks"
    /\ \E ok \in BOOLEAN :
         contests' = WithBookmarks(runs[r].snap, BookmarkSet(ok), runs[r].now)
    /\ runs' = [runs EXCEPT ![r].pc = "done", ![r].snap = {}]
    /\ loading' = FALSE
    /\ UNCHANGED <<clock, contestsTable, bookmarksTable, error>>
    /\ SyncFrame

\* One 60 s period passes.
Tick ==
    /\ clock < MaxClock * RefreshMs
    /\ clock' = clock + RefreshMs
    /\ UNCHANGED <<session, contestsTable, bookmarksTable, page, contests, loading,
                   error, runs, userId, bookmarkedIds, toggles, mount, toast,
                   sample, seen, youtube, isAdmin, solutionsTable, adminVars>>

\* The Contests page of part_004 right after construction, over a store that
\* earlier sessions may have filled: a curated contest, another user's bookmark.
\* No YouTube API key is configured: syncYouTubeSolutions returns at once.
InitSync ==
    /\ clock = 0
    /\ session = "u1"
    /\ contestsTable \in {{}, {CuratedRow}}
    /\ bookmarksTable \in {{}, {OtherUsersRow}}
    /\ page = "ContestsSync"
    /\ contests = {}
    /\ loading = TRUE
    /\ error = NoError
    /\ runs = [r \in RunIds |-> IdleRun]
    /\ userId = NoUser
    /\ bookmarkedIds = {}
    /\ toggles = [t \in Slots |-> IdleToggle]
    /\ mount = "ready"
    /\ toast = NoToast
    /\ sample = [start_time |-> 0, end_time |-> 0]
    /\ seen = Seen(0, 0, 0)
    /\ youtube = IdleYoutube
    /\ isAdmin = FALSE
    /\ solutionsTable = {}
    /\ NoAdminPage

NextSync ==
    \/ Tick
    \/ \E r \in RunIds :
         \/ StartRun(r)
         \/ FetchCodeforces(r)
         \/ FetchCodeChef(r)
         \/ FetchLeetCode(r)
         \/ UpsertContests(r)
         \/ SelectContests(r)
         \/ PublishContests(r)
         \/ SelectCached(r)
         \/ PublishCached(r)

SpecSync == InitSync /\ [][NextSync]_vars

\* ------------------------------------------------- classifier over time

\* A page evaluates the status of the sampled contest again at a later now.
ClassifyAt(t) ==
    /\ page = "none"
    /\ t > clock
    /\ clock' = t
    /\ seen' = Seen(sample.start_time, sample.end_time, t)
    /\ UNCHANGED <<session, contestsTable, bookmarksTable, page, contests, loading,
                   error, runs, userId, bookmarkedIds, toggles, mount, toast,
                   sample, youtube, isAdmin, solutionsTable, adminVars>>

\* Any contest that starts after now = 0, with instants up to MaxT, first
\* classified at now = 0.
InitClassify ==
    /\ clock = 0
    /\ session = NoUser
    /\ contestsTable = {}
    /\ bookmarksTable = {}
    /\ page = "none"
    /\ contests = {}
    /\ loading = FALSE
    /\ error = NoError
    /\ runs = [r \in RunIds |-> IdleRun]
    /\ userId = NoUser
    /\ bookmarkedIds = {}
    /\ toggles = [t \in Slots |-> IdleToggle]
    /\ mount = "ready"
    /\ toast = NoToast
    /\ sample \in [start_time : 1..MaxT, end_time : 0..MaxT]
    /\ seen = Seen(sample.start_time, sample.end_time, 0)
    /\ youtube = IdleYoutube
    /\ isAdmin = FALSE
    /\ solutionsTable = {}
    /\ NoAdminPage

NextClassify == \E t \in 1..(MaxT + 1) : ClassifyAt(t)

SpecClassify == InitClassify /\ [][NextClassify]_vars

\* ------------------------------------------------------ auth transitions

\* Variables no bookmark or auth step touches.
BookmarkFrame == UNCHANGED <<clock, contestsTable, page, loading, error, runs, sample, seen, youtube, isAdmin, solutionsTable, adminVars>>

\* The auth provider signs a user in (AuthModal).
SignIn(u) ==
    /\ page \in {"ContestsSync", "ContestsTabs", "ContestsMock", "Bookmarks", "Admin"}
    /\ session = NoUser
    /\ session' = u
    /\ UNCHANGED <<bookmarksTable, contests, userId, bookmarkedIds, toggles, mount, toast>>
    /\ BookmarkFrame

\* The auth provider signs the user out (Navbar handleSignOut).
SignOut ==
    /\ page \in {"ContestsSync", "ContestsTabs", "ContestsMock", "Bookmarks", "Admin"}
    /\ session # NoUser
    /\ session' = NoUser
    /\ UNCHANGED <<bookmarksTable, contests, userId, bookmarkedIds, toggles, mount, toast>>
    /\ BookmarkFrame

\* ------------------------------------- bookmarks store (primary key id)

HasBookmark(u, c) == \E b \in bookmarksTable : b.user_id = u /\ b.contest_id = c

\* Ids the store can generate for a row inserted without an id.
GeneratedIds == {<<<<"uuid", ToString(n)>>, "">> : n \in 1..(2 * MaxToggles)}  \* two contests, MaxToggles inserts each
UnusedIds == {i \in GeneratedIds : ~ \E b \in bookmarksTable : b.id = i}

\* insert({ user_id, contest_id }): a new row under a generated id.
InsertBookmark(table, i, u, c) == table \cup {BookmarkRow(i, u, c)}

\* upsert({ id: `${id}_${userId}`, user_id, contest_id }, { onConflict: 'id' })
UpsertBookmark(table, u, c) ==
    {b \in table : b.id # <<c, u>>} \cup {BookmarkRow(<<c, u>>, u, c)}

\* A delete addressed to the one row whose id is derived from c and u.
DeleteBookmarkById(table, u, c) == {b \in table : b.id # <<c, u>>}

\* delete().eq('user_id', u).eq('contest_id', c)
DeleteBookmark(table, u, c) ==
    {b \in table : ~ (b.user_id = u /\ b.contest_id = c)}

\* ------------------------------------------ part_003: mount and toggle

\* fetchData: const { data: userData } = await supabase.auth.getUser();
\* setUserId(currentUserId ?? null)
TabsGetUser ==
    /\ page = "ContestsTabs"
    /\ mount = "getUser"
    /\ userId' = session
    /\ mount' = "contests"
    /\ UNCHANGED <<session, bookmarksTable, contests, bookmarkedIds, toggles, toast>>
    /\ BookmarkFrame

\* fetchData: select('*') on contests; an error throws to the catch (toast),
\* finally setIsLoading(false).
TabsSelectContests ==
    /\ page = "ContestsTabs"
    /\ mount = "contests"
    /\ \E ok \in BOOLEAN :
         IF ok
         THEN /\ contests' = contestsTable
              /\ mount' = IF userId # NoUser THEN "bookmarks" ELSE "ready"
              /\ loading' = IF userId # NoUser THEN loading ELSE FALSE
              /\ toast' = toast
         ELSE /\ contests' = contests
              /\ mount' = "ready"
              /\ loading' = FALSE
              /\ toast' = "Failed to load contests"
    /\ UNCHANGED <<session, bookmarksTable, userId, bookmarkedIds, toggles>>
    /\ UNCHANGED <<clock, contestsTable, page, error, runs, sample, seen, youtube, isAdmin, solutionsTable, adminVars>>

\* fetchData: select('contest_id').eq('user_id', currentUserId) on bookmarks.
TabsSelectBookmarks ==
    /\ page = "ContestsTabs"
    /\ mount = "bookmarks"
    /\ \E ok \in BOOLEAN :
         IF ok
         THEN /\ bookmarkedIds' = {b.contest_id : b \in {x \in bookmarksTable : x.user_id = userId}}
              /\ toast' = toast
         ELSE /\ bookmarkedIds' = bookmarkedIds
              /\ toast' = "Failed to load contests"
    /\ mount' = "ready"
    /\ loading' = FALSE
    /\ UNCHANGED <<session, bookmarksTable, contests, userId, toggles>>
    /\ UNCHANGED <<clock, contestsTable, page, error, runs, sample, seen, youtube, isAdmin, solutionsTable, adminVars>>

\* toggleBookmark(contestId) up to its await: the sign-in guard, then the
\* delete or insert request chosen from the rendered bookmarkedIds.
TabsToggle(t, c) ==
    /\ page = "ContestsTabs"
    /\ toggles[t].pc = "idle"
    /\ \E row \in contests : row.id = c
    /\ IF userId = NoUser
       THEN /\ toast' = "Please sign in to bookmark contests"
            /\ toggles' = toggles
       ELSE /\ toast' = toast
            /\ toggles' = [toggles EXCEPT ![t] =
                 [IdleToggle EXCEPT !.pc = "store", !.cid = c, !.userId = userId,
                                    !.op = IF c \in bookmarkedIds THEN "remove" ELSE "add"]]
    /\ UNCHANGED <<session, bookmarksTable, contests, userId, bookmarkedIds, mount>>
    /\ BookmarkFrame

\* The store executes the request of a part_003 toggle, or fails.
TabsStore(t) ==
    /\ page = "ContestsTabs"
    /\ toggles[t].pc = "store"
    /\ \E ok \in BOOLEAN :
         /\ ok /\ toggles[t].op = "add" => UnusedIds # {}
         /\ bookmarksTable' =
              IF ~ ok THEN bookmarksTable
              ELSE IF toggles[t].op = "add"
                   THEN InsertBookmark(bookmarksTable, CHOOSE i \in UnusedIds : TRUE,
                                       toggles[t].userId, toggles[t].cid)
                   ELSE DeleteBookmark(bookmarksTable, toggles[t].userId, toggles[t].cid)
         /\ toggles' = [toggles EXCEPT ![t].pc = "resume", ![t].failed = ~ ok]
    /\ UNCHANGED <<session, contests, userId, bookmarkedIds, mount, toast>>
    /\ BookmarkFrame

\* After the await: if (error) throw error -> toast.error; otherwise
\* setBookmarkedIds(prev => ...) and toast.success.
TabsResume(t) ==
    /\ page = "ContestsTabs"
    /\ toggles[t].pc = "resume"
    /\ IF toggles[t].failed
       THEN /\ bookmarkedIds' = bookmarkedIds
            /\ toast' = "Failed to update bookmark"
       ELSE IF toggles[t].op = "add"
            THEN /\ bookmarkedIds' = bookmarkedIds \cup {toggles[t].cid}
                 /\ toast' = "Added to bookmarks"
            ELSE /\ bookmarkedIds' = bookmarkedIds \ {toggles[t].cid}
                 /\ toast' = "Removed from bookmarks"
    /\ toggles' = [toggles EXCEPT ![t] = IdleToggle]
    /\ UNCHANGED <<session, bookmarksTable, contests, userId, mount>>
    /\ BookmarkFrame

\* -------------------------------- part_004 (and Calendar.tsx): toggle

\* updatedContests = contests.map(c => c.id === id ? {...c, isBookmarked: !c.isBookmarked} : c)
FlipBookmark(list, c) ==
    {[id |-> x.id, name |-> x.name, platform |-> x.platform,
      start_time |-> x.start_time, end_time |-> x.end_time,
      duration |-> x.duration, solution_link |-> x.solution_link,
      status |-> x.status,
      isBookmarked |-> IF x.id = c THEN ~ x.isBookmarked ELSE x.isBookmarked] : x \in list}

\* toggleBookmark(id) up to await supabase.auth.getUser(); the invocation
\* keeps the contests of the render it was created in.
SyncToggle(t, c) ==
    /\ page = "ContestsSync"
    /\ toggles[t].pc = "idle"
    /\ \E row \in contests : row.id = c
    /\ toggles' = [toggles EXCEPT ![t] =
         [IdleToggle EXCEPT !.pc = "getUser", !.cid = c, !.closure = contests]]
    /\ UNCHANGED <<session, bookmarksTable, contests, userId, bookmarkedIds, mount, toast>>
    /\ BookmarkFrame

\* userId = user?.user?.id ?? 'default_user'; setContests(updatedContests);
\* then the upsert or delete request is issued.
SyncToggleGotUser(t) ==
    /\ page = "ContestsSync"
    /\ toggles[t].pc = "getUser"
    /\ LET updatedContests == FlipBookmark(toggles[t].closure, toggles[t].cid)
       IN /\ contests' = updatedContests
          /\ toggles' = [toggles EXCEPT ![t].pc = "store", ![t].closure = {},
               ![t].userId = IF session = NoUser THEN DefaultUser ELSE session,
               ![t].op = IF \E x \in updatedContests : x.id = toggles[t].cid /\ x.isBookmarked
                         THEN "add" ELSE "remove"]
    /\ UNCHANGED <<session, bookmarksTable, userId, bookmarkedIds, mount, toast>>
    /\ BookmarkFrame

\* The store executes the request of a part_004 toggle, or fails.
SyncToggleStore(t) ==
    /\ page = "ContestsSync"
    /\ toggles[t].pc = "store"
    /\ \E ok \in BOOLEAN :
         /\ bookmarksTable' =
              IF ~ ok THEN bookmarksTable
              ELSE IF toggles[t].op = "add"
                   THEN UpsertBookmark(bookmarksTable, toggles[t].userId, toggles[t].cid)
                   ELSE DeleteBookmark(bookmarksTable, toggles[t].userId, toggles[t].cid)
         /\ toggles' = [toggles EXCEPT ![t].pc = "resume", ![t].failed = ~ ok]
    /\ UNCHANGED <<session, contests, userId, bookmarkedIds, mount, toast>>
    /\ BookmarkFrame

\* After the await the result is not read: toast.success either way.
SyncToggleResume(t) ==
    /\ page = "ContestsSync"
    /\ toggles[t].pc = "resume"
    /\ toast' = IF toggles[t].op = "add" THEN "Contest bookmarked!" ELSE "Bookmark removed!"
    /\ toggles' = [toggles EXCEPT ![t] = IdleToggle]
    /\ UNCHANGED <<session, bookmarksTable, contests, userId, bookmarkedIds, mount>>
    /\ BookmarkFrame

\* The contests rows a refresh cycle at now = 0 upserts when Codeforces and
\* CodeChef answer.
SyncedRows == Upsert({}, {CfContest(CfRaw("Round 1"), 0), CcContest(CcRaw, 0)})

\* Either Contests page over those rows and an empty bookmarks table: the
\* part_003 page before its mount effect ran, or the part_004 page showing
\* what its first refresh cycle published.
InitBookmarks ==
    /\ clock = 0
    /\ session = NoUser
    /\ contestsTable = SyncedRows
    /\ bookmarksTable = {}
    /\ page \in {"ContestsTabs", "ContestsSync"}
    /\ contests = IF page = "ContestsSync" THEN WithBookmarks(SyncedRows, {}, 0) ELSE {}
    /\ loading = (page = "ContestsTabs")
    /\ error = NoError
    /\ runs = [r \in RunIds |-> IdleRun]
    /\ userId = NoUser
    /\ bookmarkedIds = {}
    /\ toggles = [t \in Slots |-> IdleToggle]
    /\ mount = IF page = "ContestsTabs" THEN "getUser" ELSE "ready"
    /\ toast = NoToast
    /\ sample = [start_time |-> 0, end_time |-> 0]
    /\ seen = Seen(0, 0, 0)
    /\ youtube = IdleYoutube
    /\ isAdmin = FALSE
    /\ solutionsTable = {}
    /\ NoAdminPage

ContestIds == {row.id : row \in SyncedRows}

NextBookmarks ==
    \/ \E u \in Users : SignIn(u)
    \/ SignOut
    \/ TabsGetUser
    \/ TabsSelectContests
    \/ TabsSelectBookmarks
    \/ \E t \in Slots :
         \/ \E c \in ContestIds : TabsToggle(t, c)
         \/ TabsStore(t)
         \/ TabsResume(t)
         \/ \E c \in ContestIds : SyncToggle(t, c)
         \/ SyncToggleGotUser(t)
         \/ SyncToggleStore(t)
         \/ SyncToggleResume(t)

SpecBookmarks == InitBookmarks /\ [][NextBookmarks]_vars

\* ------------------------------------------------ Calendar.tsx: the page

CalendarError == "Failed to fetch contests. Displaying cached data if available."

\* syncedContests.map(contest => ({...contest, isBookmarked, status})), the
\* status being new Date(contest.start_time) > now ? 'upcoming' : 'past'.
CalendarWithBookmarks(rows, bookmarkSet, now) ==
    {[id |-> c.id, name |-> c.name, platform |-> c.platform,
      start_time |-> c.start_time, end_time |-> c.end_time,
      duration |-> c.duration, solution_link |-> c.solution_link,
      status |-> CalendarStatusOf(c.start_time, now),
      isBookmarked |-> c.id \in bookmarkSet] : c \in rows}

\* The mount effect and every firing of the 60 s interval call fetchContests.
CalendarStart(r) ==
    /\ page = "Calendar"
    /\ runs[r].pc = "idle"
    /\ r > 1 => /\ runs[r - 1].pc # "idle"
                /\ clock >= runs[r - 1].started + RefreshMs
    /\ runs' = [runs EXCEPT ![r] = [IdleRun EXCEPT !.pc = "calSelect", !.started = clock,
                                                   !.now = clock]]
    /\ loading' = TRUE
    /\ error' = NoError
    /\ UNCHANGED <<clock, contestsTable, bookmarksTable, contests>>
    /\ SyncFrame

\* select('*') on contests; if (fetchError) throw fetchError -> setError.
CalendarSelect(r) ==
    /\ runs[r].pc = "calSelect"
    /\ \E ok \in BOOLEAN :
         IF ok
         THEN /\ runs' = [runs EXCEPT ![r].pc = "calBookmarks", ![r].snap = contestsTable]
              /\ error' = error
         ELSE /\ runs' = [runs EXCEPT ![r].pc = "calCached"]
              /\ error' = CalendarError
    /\ UNCHANGED <<clock, contestsTable, bookmarksTable, contests, loading>>
    /\ SyncFrame

\* select('contest_id') on bookmarks, setContests(contestsWithBookmarks),
\* finally setLoading(false).
CalendarPublish(r) ==
    /\ runs[r].pc = "calBookmarks"
    /\ \E ok \in BOOLEAN :
         contests' = CalendarWithBookmarks(runs[r].snap, BookmarkSet(ok), runs[r].now)
    /\ runs' = [runs EXCEPT ![r].pc = "done", ![r].snap = {}]
    /\ loading' = FALSE
    /\ UNCHANGED <<clock, contestsTable, bookmarksTable, error>>
    /\ SyncFrame

\* catch: select('*') on contests; without data nothing is displayed anew.
CalendarSelectCached(r) ==
    /\ runs[r].pc = "calCached"
    /\ \E ok \in BOOLEAN :
         IF ok
         THEN /\ runs' = [runs EXCEPT ![r].pc = "calCachedBookmarks",
                                      ![r].snap = contestsTable]
              /\ loading' = loading
         ELSE /\ runs' = [runs EXCEPT ![r].pc = "done"]
              /\ loading' = FALSE
    /\ UNCHANGED <<clock, contestsTable, bookmarksTable, contests, error>>
    /\ SyncFrame

\* catch: select('contest_id') on bookmarks, const now = new Date(),
\* setContests(cachedContests.map(...)), finally setLoading(false).
CalendarPublishCached(r) ==
    /\ runs[r].pc = "calCachedBookmarks"
    /\ \E ok \in BOOLEAN :
         contests' = CalendarWithBookmarks(runs[r].snap, BookmarkSet(ok), clock)
    /\ runs' = [runs EXCEPT ![r].pc = "done", ![r].snap = {}]
    /\ loading' = FALSE
    /\ UNCHANGED <<clock, contestsTable, bookmarksTable, error>>
    /\ SyncFrame

\* ------------------------------------- Calendar.tsx: handleAddContest

\* newContest.platform.toLowerCase()
Lower(platform) ==
    CASE platform = "Codeforces" -> "codeforces"
      [] platform = "CodeChef" -> "codechef"
      [] platform = "LeetCode" -> "leetcode"

\* What the add form can hold at submit: name, platform, the instant of the
\* datetime-local field and parseInt of the number field (no minimum is set
\* on it); an empty name stands for any required field left empty.
ManualForms ==
    {[name |-> "Round 1", platform |-> "Codeforces", start_time |-> 60000, duration |-> 1],
     [name |-> "Mock", platform |-> "LeetCode", start_time |-> 60000, duration |-> -1],
     [name |-> "", platform |-> "Codeforces", start_time |-> 60000, duration |-> 1]}

\* const newContestData = { id: `${platform.toLowerCase()}_${Date.now()}`, ... }
NewContestData(form, now) ==
    [id |-> <<Lower(form.platform), ToString(now)>>,
     name |-> form.name,
     platform |-> form.platform,
     start_time |-> form.start_time,
     end_time |-> form.start_time + form.duration * 60000,
     duration |-> form.duration,
     solution_link |-> NoLink,
     status |-> CalendarStatusOf(form.start_time, now)]

\* Rows handleAddContest inserted: their id starts with the lowercased platform.
ManualRows(table) ==
    {row \in table : row.id[1] \in {"codeforces", "codechef", "leetcode"}}

\* handleAddContest: the required-field guard, then insert(newContestData);
\* the store rejects the insert when it is unavailable or the id is taken.
HandleAddContest(form) ==
    /\ page = "Calendar"
    /\ Cardinality(ManualRows(contestsTable)) < MaxAdds
    /\ IF form.name = ""
       THEN /\ toast' = "Please fill in all fields"
            /\ UNCHANGED <<contestsTable, contests>>
       ELSE LET newContestData == NewContestData(form, clock)
            IN \E ok \in BOOLEAN :
                 IF ok /\ ~ \E row \in contestsTable : row.id = newContestData.id
                 THEN /\ contestsTable' = contestsTable \cup {newContestData}
                      /\ contests' = contests \cup
                           {[id |-> newContestData.id, name |-> newContestData.name,
                             platform |-> newContestData.platform,
                             start_time |-> newContestData.start_time,
                             end_time |-> newContestData.end_time,
                             duration |-> newContestData.duration,
                             solution_link |-> newContestData.solution_link,
                             status |-> newContestData.status,
                             isBookmarked |-> FALSE]}
                      /\ toast' = "Contest added successfully!"
                 ELSE /\ toast' = "Failed to add contest"
                      /\ UNCHANGED <<contestsTable, contests>>
    /\ UNCHANGED <<clock, session, bookmarksTable, page, loading, error, runs, userId,
                   bookmarkedIds, toggles, mount, sample, seen, youtube, isAdmin, solutionsTable, adminVars>>

\* The Calendar page right after construction, over a store that the refresh
\* cycle of the Contests page may have filled.
InitCalendar ==
    /\ clock = 0
    /\ session = NoUser
    /\ contestsTable \in {{}, SyncedRows}
    /\ bookmarksTable \in {{}, {OtherUsersRow}}
    /\ page = "Calendar"
    /\ contests = {}
    /\ loading = TRUE
    /\ error = NoError
    /\ runs = [r \in RunIds |-> IdleRun]
    /\ userId = NoUser
    /\ bookmarkedIds = {}
    /\ toggles = [t \in Slots |-> IdleToggle]
    /\ mount = "ready"
    /\ toast = NoToast
    /\ sample = [start_time |-> 0, end_time |-> 0]
    /\ seen = Seen(0, 0, 0)
    /\ youtube = IdleYoutube
    /\ isAdmin = FALSE
    /\ solutionsTable = {}
    /\ NoAdminPage

NextCalendar ==
    \/ Tick
    \/ \E form \in ManualForms : HandleAddContest(form)
    \/ \E r \in RunIds :
         \/ CalendarStart(r)
         \/ CalendarSelect(r)
         \/ CalendarPublish(r)
         \/ CalendarSelectCached(r)
         \/ CalendarPublishCached(r)

SpecCalendar == InitCalendar /\ [][NextCalendar]_vars

\* --------------------------------------- normalizers over one contest

\* Solutions.tsx (Contests variant over the Kontests API): normalizeContest.
\* contest.duration / 3600 is not rounded, so the duration is kept as the
\* fraction num / den of an hour; end_time 0 stands for a missing end_time
\* (falsy in contest.end_time || ...).
NormalizeContest(contest, platform) ==
    [id |-> <<platform, contest.name, contest.start_time>>,
     name |-> contest.name,
     platform |-> platform,
     start_time |-> contest.start_time,
     end_time |-> IF contest.end_time # 0 THEN contest.end_time
                  ELSE contest.start_time + contest.duration * 1000,
     duration |-> [num |-> contest.duration, den |-> 3600],
     solution_link |-> NoLink]

\* A contest as its platform announces it: the platform's own id, the name,
\* start and duration in seconds (0: LeetCode lists no duration), and
\* whether the Kontests listing carries an end_time.
Announcements ==
    [platform : {"Codeforces", "CodeChef", "LeetCode"},
     native : {"1", "2"},
     name : {"Round 1", "Round 1 (rated)"},
     start : {60, 120},
     duration : {0, 90, 5400},
     listsEnd : BOOLEAN]

\* The entry of the platform's own API for an announced contest, normalized
\* as fetchAndSyncContests of part_004 does.
SyncNormalize(a, now) ==
    CASE a.platform = "Codeforces" ->
           CfContest([id |-> a.native, name |-> a.name, startTimeSeconds |-> a.start,
                      durationSeconds |-> a.duration], now)
      [] a.platform = "CodeChef" ->
           CcContest([contest_code |-> a.native, contest_name |-> a.name,
                      contest_start_date |-> a.start * 1000,
                      contest_end_date |-> (a.start + a.duration) * 1000], now)
      [] a.platform = "LeetCode" ->
           LcContest([titleSlug |-> a.native, title |-> a.name, startTime |-> a.start,
                      duration |-> a.duration], now)

\* The Kontests entry {name, start_time, end_time, duration} for an announced
\* contest, normalized as fetchData of Solutions.tsx does.
KontestsNormalize(a) ==
    NormalizeContest([name |-> a.name, start_time |-> a.start * 1000,
                      end_time |-> IF a.listsEnd THEN (a.start + a.duration) * 1000 ELSE 0,
                      duration |-> a.duration], a.platform)

Normalized(a, now) == [sync |-> SyncNormalize(a, now), kontests |-> KontestsNormalize(a)]

\* The next fetch finds another announcement: the same contest renamed or
\* rescheduled, or another contest; both pages normalize it.
Announce(a) ==
    /\ page = "normalizer"
    /\ a # sample
    /\ sample' = a
    /\ seen' = Normalized(a, clock)
    /\ UNCHANGED <<clock, session, contestsTable, bookmarksTable, page, contests, loading,
                   error, runs, userId, bookmarkedIds, toggles, mount, toast,
                   youtube, isAdmin, solutionsTable, adminVars>>

InitNormalize ==
    /\ clock = 0
    /\ session = NoUser
    /\ contestsTable = {}
    /\ bookmarksTable = {}
    /\ page = "normalizer"
    /\ contests = {}
    /\ loading = FALSE
    /\ error = NoError
    /\ runs = [r \in RunIds |-> IdleRun]
    /\ userId = NoUser
    /\ bookmarkedIds = {}
    /\ toggles = [t \in Slots |-> IdleToggle]
    /\ mount = "ready"
    /\ toast = NoToast
    /\ sample \in Announcements
    /\ seen = Normalized(sample, 0)
    /\ youtube = IdleYoutube
    /\ isAdmin = FALSE
    /\ solutionsTable = {}
    /\ NoAdminPage

NextNormalize == \E a \in Announcements : Announce(a)

SpecNormalize == InitNormalize /\ [][NextNormalize]_vars

\* ------------------------------------------- the upsert over any batch

\* The values of now at which a run can normalize its listings.
Nows == {k * RefreshMs : k \in 0..MaxClock}

\* Every allContests a run can build: Codeforces answered (under either
\* name), CodeChef and LeetCode answered or were skipped.
FetchedBatches ==
    {AllContests([cf |-> {CfContest(CfRaw(n), now)},
                  cc |-> {CcContest(c, now) : c \in ccResult},
                  lc |-> {LcContest(c, now) : c \in lcResult}]) :
       <<n, now, ccResult, lcResult>> \in CfNames \X Nows \X {{}, {CcRaw}} \X {{}, {LcRaw}}}

\* A run has built the batch b; seen starts with the table it will meet.
FetchBatch(b) ==
    /\ page = "store"
    /\ sample' = b
    /\ seen' = <<contestsTable>>
    /\ UNCHANGED <<clock, session, contestsTable, bookmarksTable, page, contests, loading,
                   error, runs, userId, bookmarkedIds, toggles, mount, toast,
                   youtube, isAdmin, solutionsTable, adminVars>>

\* The store executes upsert(allContests, { onConflict: 'id' }) for the batch
\* in hand; seen records the table after each application.
ApplyBatch ==
    /\ page = "store"
    /\ Len(seen) <= MaxApply
    /\ contestsTable' = Upsert(contestsTable, sample)
    /\ seen' = Append(seen, contestsTable')
    /\ UNCHANGED <<clock, session, bookmarksTable, page, contests, loading, error, runs,
                   userId, bookmarkedIds, toggles, mount, toast, sample, youtube, isAdmin, solutionsTable, adminVars>>

InitUpsert ==
    /\ clock = 0
    /\ session = NoUser
    /\ contestsTable \in {{}, {CuratedRow}}
    /\ bookmarksTable = {}
    /\ page = "store"
    /\ contests = {}
    /\ loading = FALSE
    /\ error = NoError
    /\ runs = [r \in RunIds |-> IdleRun]
    /\ userId = NoUser
    /\ bookmarkedIds = {}
    /\ toggles = [t \in Slots |-> IdleToggle]
    /\ mount = "ready"
    /\ toast = NoToast
    /\ sample \in FetchedBatches
    /\ seen = <<contestsTable>>
    /\ youtube = IdleYoutube
    /\ isAdmin = FALSE
    /\ solutionsTable = {}
    /\ NoAdminPage

NextUpsert ==
    \/ \E b \in FetchedBatches : FetchBatch(b)
    \/ ApplyBatch

SpecUpsert == InitUpsert /\ [][NextUpsert]_vars

\* ------------------------------------------ normalizers over listings

\* What the CodeChef and LeetCode endpoints can list.
Listings ==
    [cc : SUBSET {CcRaw, CcRaw2, CcInverted, CcUnparsable},
     lc : SUBSET {LcRaw, LcUnparsable}]

\* A run at now receives the listings l from CodeChef and LeetCode and
\* normalizes them as fetchAndSyncContests does.
NormalizeListings(l, now) ==
    /\ page = "listing"
    /\ now >= clock
    /\ clock' = now
    /\ sample' = l
    /\ seen' = [cc |-> CcContests(l.cc, now), lc |-> LcContests(l.lc, now)]
    /\ UNCHANGED <<session, contestsTable, bookmarksTable, page, contests, loading,
                   error, runs, userId, bookmarkedIds, toggles, mount, toast,
                   youtube, isAdmin, solutionsTable, adminVars>>

InitListing ==
    /\ clock = 0
    /\ session = NoUser
    /\ contestsTable = {}
    /\ bookmarksTable = {}
    /\ page = "listing"
    /\ contests = {}
    /\ loading = FALSE
    /\ error = NoError
    /\ runs = [r \in RunIds |-> IdleRun]
    /\ userId = NoUser
    /\ bookmarkedIds = {}
    /\ toggles = [t \in Slots |-> IdleToggle]
    /\ mount = "ready"
    /\ toast = NoToast
    /\ sample = [cc |-> {}, lc |-> {}]
    /\ seen = [cc |-> {}, lc |-> {}]
    /\ youtube = IdleYoutube
    /\ isAdmin = FALSE
    /\ solutionsTable = {}
    /\ NoAdminPage

NextListing == \E l \in Listings : \E now \in Nows : NormalizeListings(l, now)

SpecListing == InitListing /\ [][NextListing]_vars

\* ------------------------------ part_004: solution links of contests

\* const playlists = { LeetCode, Codeforces, CodeChef }, in iteration order.
Playlists == <<"LeetCode", "Codeforces", "CodeChef">>

\* What youtube.playlistItems.list can answer for a playlist: a failure, no
\* video, or one video whose title starts with a contest name of the platform.
PlaylistUpstream(platform) ==
    {[ok |-> FALSE, videos |-> {}], [ok |-> TRUE, videos |-> {}]} \cup
    {[ok |-> TRUE, videos |-> {[contestName |-> n, videoId |-> "v1"]}] :
       n \in IF platform = "Codeforces" THEN {"Round 1"}
             ELSE IF platform = "CodeChef" THEN {"Starters 1"}
             ELSE {"Weekly 1"}}

\* const videoUrl = `https://www.youtube.com/watch?v=${videoId}`
VideoUrl(videoId) == "https://www.youtube.com/watch?v=" \o videoId

\* ilike('name', `%${contestName}%`) over the names of the model.
NameContains(name, contestName) ==
    \/ name = contestName
    \/ name = "Round 1 (rated)" /\ contestName = "Round 1"

\* select('id').ilike(...).eq('platform', platform).single(): the id of the
\* only matching row, or no data when the call fails or the match is not one row.
SingleMatch(ok, contestName, platform) ==
    LET rows == {row \in contestsTable :
                   row.platform = platform /\ NameContains(row.name, contestName)}
    IN IF ok /\ Cardinality(rows) = 1 THEN {row.id : row \in rows} ELSE {}

\* update({ solution_link: link }).eq('id', id)
UpdateLink(table, id, link) ==
    {[id |-> row.id, name |-> row.name, platform |-> row.platform,
      start_time |-> row.start_time, end_time |-> row.end_time,
      duration |-> row.duration,
      solution_link |-> IF row.id = id THEN link ELSE row.solution_link,
      status |-> row.status] : row \in table}

\* setContests(prev => prev.map(c => c.id === id ? {...c, solution_link: link} : c))
ShowLink(list, id, link) ==
    {[id |-> c.id, name |-> c.name, platform |-> c.platform,
      start_time |-> c.start_time, end_time |-> c.end_time,
      duration |-> c.duration,
      solution_link |-> IF c.id = id THEN link ELSE c.solution_link,
      status |-> c.status, isBookmarked |-> c.isBookmarked] : c \in list}

\* Variables no solution-link step touches.
SolutionsFrame ==
    UNCHANGED <<clock, bookmarksTable, page, loading, error, runs, userId, bookmarkedIds,
                toggles, sample, seen, adminVars>>

\* The loop moves to the next playlist, or the sync returns and initialize()
\* goes on to supabase.auth.getUser().
NextPlaylist ==
    IF Len(youtube.left) > 1
    THEN /\ youtube' = [IdleYoutube EXCEPT !.pc = "list", !.left = Tail(youtube.left)]
         /\ mount' = mount
    ELSE /\ youtube' = IdleYoutube
         /\ mount' = "getUser"

\* initialize(): await syncYouTubeSolutions(), entered after the first
\* fetchAndSyncContests; the API key is configured.  The 24 h interval fires
\* long after this invocation has returned.
YoutubeStart ==
    /\ page = "ContestsSync"
    /\ mount = "youtube"
    /\ youtube.pc = "idle"
    /\ youtube' = [IdleYoutube EXCEPT !.pc = "list", !.left = Playlists]
    /\ UNCHANGED <<session, contestsTable, solutionsTable, contests, mount, isAdmin, toast>>
    /\ SolutionsFrame

\* await youtube.playlistItems.list(...): a rejection ends the sync in its
\* catch; otherwise the first video, if any, is looked up.
YoutubeList ==
    /\ page = "ContestsSync"
    /\ youtube.pc = "list"
    /\ \E resp \in PlaylistUpstream(Head(youtube.left)) :
         IF ~ resp.ok
         THEN /\ youtube' = IdleYoutube
              /\ mount' = "getUser"
         ELSE IF resp.videos = {}
              THEN NextPlaylist
              ELSE /\ youtube' = [youtube EXCEPT !.pc = "select",
                        !.video = CHOOSE v \in resp.videos : TRUE]
                   /\ mount' = mount
    /\ UNCHANGED <<session, contestsTable, solutionsTable, contests, isAdmin, toast>>
    /\ SolutionsFrame

\* await supabase.from('contests').select('id').ilike(...).eq(...).single();
\* if (contest) the update is issued.
YoutubeSelect ==
    /\ page = "ContestsSync"
    /\ youtube.pc = "select"
    /\ \E ok \in BOOLEAN :
         LET contest == SingleMatch(ok, youtube.video.contestName, Head(youtube.left))
         IN IF contest # {}
            THEN /\ youtube' = [youtube EXCEPT !.pc = "update",
                                   !.found = CHOOSE id \in contest : TRUE]
                 /\ mount' = mount
            ELSE NextPlaylist
    /\ UNCHANGED <<session, contestsTable, solutionsTable, contests, isAdmin, toast>>
    /\ SolutionsFrame

\* await supabase.from('contests').update({ solution_link: videoUrl }).eq('id', ...);
\* the result is not read: setContests shows the link either way.
YoutubeUpdate ==
    /\ page = "ContestsSync"
    /\ youtube.pc = "update"
    /\ \E ok \in BOOLEAN :
         contestsTable' =
           IF ok THEN UpdateLink(contestsTable, youtube.found, VideoUrl(youtube.video.videoId))
           ELSE contestsTable
    /\ contests' = ShowLink(contests, youtube.found, VideoUrl(youtube.video.videoId))
    /\ NextPlaylist
    /\ UNCHANGED <<session, solutionsTable, isAdmin, toast>>
    /\ SolutionsFrame

\* initialize(): getUser, setIsAdmin(user?.user?.role === 'admin').
GetUserRole ==
    /\ page = "ContestsSync"
    /\ mount = "getUser"
    /\ isAdmin' = (session \in Admins)
    /\ mount' = "ready"
    /\ UNCHANGED <<session, contestsTable, solutionsTable, contests, youtube, toast>>
    /\ SolutionsFrame

\* The links an admin types into a solution form.
FormLinks == {"https://editorial"}

\* handleAddSolution: the modal opens from the button rendered when isAdmin,
\* its select lists the contests displayed as past.
HandleAddSolution(id, link) ==
    /\ page = "ContestsSync"
    /\ isAdmin
    /\ \E c \in contests : c.id = id /\ c.status = "past"
    /\ \E ok \in BOOLEAN :
         IF ok
         THEN /\ contestsTable' = UpdateLink(contestsTable, id, link)
              /\ contests' = ShowLink(contests, id, link)
              /\ toast' = "Solution link added successfully!"
         ELSE /\ UNCHANGED <<contestsTable, contests>>
              /\ toast' = "Failed to update solution link"
    /\ UNCHANGED <<session, solutionsTable, youtube, mount, isAdmin>>
    /\ SolutionsFrame

\* --------------------------- Contests.tsx: solution links of contests

\* const mockContests (all four started before any present now); a missing
\* solutionLink is NoLink.
MockContests ==
    {[id |-> "cf1", title |-> "Codeforces Round 930", platform |-> "Codeforces",
      startTime |-> "2025-03-20T14:00:00Z", duration |-> 120, isBookmarked |-> FALSE],
     [id |-> "lc1", title |-> "Weekly Contest 441", platform |-> "LeetCode",
      startTime |-> "2025-03-15T19:30:00-07:00", duration |-> 90, isBookmarked |-> FALSE],
     [id |-> "cc1", title |-> "CodeChef Starters 120", platform |-> "CodeChef",
      startTime |-> "2025-03-18T15:00:00Z", duration |-> 180, isBookmarked |-> FALSE],
     [id |-> "cf2", title |-> "Codeforces Round 929", platform |-> "Codeforces",
      startTime |-> "2025-03-10T14:00:00Z", duration |-> 120, isBookmarked |-> FALSE]}

\* const mockLinks (autoFetchSolutionLinks)
MockLinks == {[contestId |-> "cf2", link |-> "https://www.youtube.com/watch?v=example_cf"]}

\* upsert({ contest_id, solution_link }, { onConflict: 'contest_id' })
UpsertSolution(table, id, link) ==
    {row \in table : row.contest_id # id} \cup {[contest_id |-> id, solution_link |-> link]}

\* A displayed mock contest with its solutionLink.
MockShown(c, link) ==
    [id |-> c.id, title |-> c.title, platform |-> c.platform, startTime |-> c.startTime,
     duration |-> c.duration, isBookmarked |-> c.isBookmarked, solutionLink |-> link]

\* fetchContests: select('contest_id, solution_link') on contest_solutions (a
\* failed call gives an empty map), setContests(contestsWithSolutions).
MockFetchContests ==
    /\ page = "ContestsMock"
    /\ mount = "mockFetch"
    /\ \E ok \in BOOLEAN :
         LET solutions == IF ok THEN solutionsTable ELSE {}
         IN contests' =
              {MockShown(c, IF \E row \in solutions : row.contest_id = c.id
                            THEN (CHOOSE row \in solutions : row.contest_id = c.id).solution_link
                            ELSE NoLink) : c \in MockContests}
    /\ mount' = "ready"
    /\ UNCHANGED <<session, contestsTable, solutionsTable, youtube, isAdmin, toast>>
    /\ SolutionsFrame

\* autoFetchSolutionLinks, called by the mount effect next to fetchContests:
\* the upsert of the one mock link; its result is not read.
AutoFetchSolutionLinks ==
    /\ page = "ContestsMock"
    /\ youtube.pc = "autoFetch"
    /\ \E ok \in BOOLEAN : \E m \in MockLinks :
         solutionsTable' = IF ok THEN UpsertSolution(solutionsTable, m.contestId, m.link)
                                 ELSE solutionsTable
    /\ youtube' = IdleYoutube
    /\ UNCHANGED <<session, contestsTable, contests, mount, isAdmin, toast>>
    /\ SolutionsFrame

\* handleSolutionSubmit: the form is rendered for every visitor and lists the
\* displayed contests that have started; alert() is recorded as the toast.
HandleSolutionSubmit(id, link) ==
    /\ page = "ContestsMock"
    /\ \E c \in contests : c.id = id
    /\ \E ok \in BOOLEAN :
         IF ok
         THEN /\ solutionsTable' = UpsertSolution(solutionsTable, id, link)
              /\ contests' = {MockShown(c, IF c.id = id THEN link ELSE c.solutionLink) :
                                c \in contests}
              /\ toast' = "Solution link added successfully!"
         ELSE /\ UNCHANGED <<solutionsTable, contests>>
              /\ toast' = "Error adding solution link."
    /\ UNCHANGED <<session, contestsTable, youtube, mount, isAdmin>>
    /\ SolutionsFrame

\* Either Contests page with solution forms, two refresh periods in (Round 1
\* has ended): part_004 showing what its first refresh cycle published and
\* about to sync the playlists, or the Contests.tsx page before its mount effect ran.
InitSolutions ==
    /\ clock = 2 * RefreshMs
    /\ session \in {NoUser} \cup Users \cup Admins
    /\ page \in {"ContestsSync", "ContestsMock"}
    /\ contestsTable = IF page = "ContestsSync" THEN SyncedRows ELSE {}
    /\ bookmarksTable = {}
    /\ solutionsTable = {}
    /\ NoAdminPage
    /\ contests = IF page = "ContestsSync" THEN WithBookmarks(SyncedRows, {}, clock) ELSE {}
    /\ loading = FALSE
    /\ error = NoError
    /\ runs = [r \in RunIds |-> IdleRun]
    /\ userId = NoUser
    /\ bookmarkedIds = {}
    /\ toggles = [t \in Slots |-> IdleToggle]
    /\ mount = IF page = "ContestsSync" THEN "youtube" ELSE "mockFetch"
    /\ toast = NoToast
    /\ sample = [start_time |-> 0, end_time |-> 0]
    /\ seen = Seen(0, 0, 0)
    /\ youtube = IF page = "ContestsSync" THEN IdleYoutube
                 ELSE [IdleYoutube EXCEPT !.pc = "autoFetch"]
    /\ isAdmin = FALSE

NextSolutions ==
    \/ \E u \in Users \cup Admins : SignIn(u)
    \/ SignOut
    \/ YoutubeStart
    \/ YoutubeList
    \/ YoutubeSelect
    \/ YoutubeUpdate
    \/ GetUserRole
    \/ \E id \in ContestIds : \E link \in FormLinks : HandleAddSolution(id, link)
    \/ MockFetchContests
    \/ AutoFetchSolutionLinks
    \/ \E c \in MockContests : \E link \in FormLinks : HandleSolutionSubmit(c.id, link)

SpecSolutions == InitSolutions /\ [][NextSolutions]_vars

\* ------------------------------ part_004: toggles next to refresh cycles

\* The part_004 page of user u1 one refresh period in, showing what its first
\* refresh cycle published over an empty bookmarks table; the interval is
\* about to fire.
InitRefetch ==
    /\ clock = RefreshMs
    /\ session = "u1"
    /\ contestsTable = SyncedRows
    /\ bookmarksTable = {}
    /\ page = "ContestsSync"
    /\ contests = WithBookmarks(SyncedRows, {}, 0)
    /\ loading = FALSE
    /\ error = NoError
    /\ runs = [r \in RunIds |-> IdleRun]
    /\ userId = NoUser
    /\ bookmarkedIds = {}
    /\ toggles = [t \in Slots |-> IdleToggle]
    /\ mount = "ready"
    /\ toast = NoToast
    /\ sample = [start_time |-> 0, end_time |-> 0]
    /\ seen = Seen(0, 0, 0)
    /\ youtube = IdleYoutube
    /\ isAdmin = FALSE
    /\ solutionsTable = {}
    /\ NoAdminPage

NextRefetch ==
    \/ \E u \in Users : SignIn(u)
    \/ SignOut
    \/ \E r \in RunIds :
         \/ StartRun(r)
         \/ FetchCodeforces(r)
         \/ FetchCodeChef(r)
         \/ FetchLeetCode(r)
         \/ UpsertContests(r)
         \/ SelectContests(r)
         \/ PublishContests(r)
         \/ SelectCached(r)
         \/ PublishCached(r)
    \/ \E c \in ContestIds : SyncToggle(1, c)
    \/ SyncToggleGotUser(1)
    \/ SyncToggleStore(1)
    \/ SyncToggleResume(1)

SpecRefetch == InitRefetch /\ [][NextRefetch]_vars

\* ------------------------------------- part_008: the Bookmarks page

\* select('contest_id').eq('user_id', u): the contest ids a load of u's
\* bookmarks returns.
LoadBookmarks(table, u) == {b.contest_id : b \in {x \in table : x.user_id = u}}

\* select('contest:contests(*)').eq('user_id', u): the contests rows joined
\* to u's bookmarks.
LoadBookmarkedContests(table, u) == {c \in contestsTable : c.id \in LoadBookmarks(table, u)}

\* fetchBookmarks: getUser, setUserId; without a user the toast and
\* setIsLoading(false), return.
BookmarksGetUser ==
    /\ page = "Bookmarks"
    /\ mount = "getUser"
    /\ userId' = session
    /\ mount' = IF session = NoUser THEN "ready" ELSE "bookmarks"
    /\ loading' = IF session = NoUser THEN FALSE ELSE loading
    /\ toast' = IF session = NoUser THEN "Please sign in to view bookmarks" ELSE toast
    /\ UNCHANGED <<session, bookmarksTable, contests, bookmarkedIds, toggles>>
    /\ UNCHANGED <<clock, contestsTable, page, error, runs, sample, seen, youtube, isAdmin, solutionsTable, adminVars>>

\* fetchBookmarks: the joined select; an error throws to the catch (toast),
\* finally setIsLoading(false).
BookmarksSelect ==
    /\ page = "Bookmarks"
    /\ mount = "bookmarks"
    /\ \E ok \in BOOLEAN :
         IF ok
         THEN /\ contests' = LoadBookmarkedContests(bookmarksTable, userId)
              /\ toast' = toast
         ELSE /\ contests' = contests
              /\ toast' = "Failed to load bookmarks"
    /\ mount' = "ready"
    /\ loading' = FALSE
    /\ UNCHANGED <<session, bookmarksTable, userId, bookmarkedIds, toggles>>
    /\ UNCHANGED <<clock, contestsTable, page, error, runs, sample, seen, youtube, isAdmin, solutionsTable, adminVars>>

\* removeBookmark(contestId) up to its await: if (!userId) return; then the
\* delete request.
RemoveBookmark(t, c) ==
    /\ page = "Bookmarks"
    /\ toggles[t].pc = "idle"
    /\ \E row \in contests : row.id = c
    /\ userId # NoUser
    /\ toggles' = [toggles EXCEPT ![t] =
         [IdleToggle EXCEPT !.pc = "store", !.cid = c, !.userId = userId, !.op = "remove"]]
    /\ UNCHANGED <<session, bookmarksTable, contests, userId, bookmarkedIds, mount, toast>>
    /\ BookmarkFrame

\* The store executes the delete of a removeBookmark, or fails.
RemoveStore(t) ==
    /\ page = "Bookmarks"
    /\ toggles[t].pc = "store"
    /\ \E ok \in BOOLEAN :
         /\ bookmarksTable' =
              IF ok THEN DeleteBookmark(bookmarksTable, toggles[t].userId, toggles[t].cid)
              ELSE bookmarksTable
         /\ toggles' = [toggles EXCEPT ![t].pc = "resume", ![t].failed = ~ ok]
    /\ UNCHANGED <<session, contests, userId, bookmarkedIds, mount, toast>>
    /\ BookmarkFrame

\* After the await: if (error) throw error -> toast.error; otherwise
\* setBookmarkedContests(prev => prev.filter(c => c.id !== contestId)).
RemoveResume(t) ==
    /\ page = "Bookmarks"
    /\ toggles[t].pc = "resume"
    /\ IF toggles[t].failed
       THEN /\ contests' = contests
            /\ toast' = "Failed to remove bookmark"
       ELSE /\ contests' = {c \in contests : c.id # toggles[t].cid}
            /\ toast' = "Bookmark removed"
    /\ toggles' = [toggles EXCEPT ![t] = IdleToggle]
    /\ UNCHANGED <<session, bookmarksTable, userId, bookmarkedIds, mount>>
    /\ BookmarkFrame

\* The bookmarks rows saved in earlier sessions: u1's, by either page's id
\* scheme, and u2's.
SavedRows ==
    {BookmarkRow(<<c, "u1">>, "u1", c) : c \in ContestIds} \cup {OtherUsersRow}

\* The part_003 page or the Bookmarks page of the signed-in u1, before its
\* mount effect ran, over any of those saved rows.
InitSaved ==
    /\ clock = 0
    /\ session = "u1"
    /\ contestsTable = SyncedRows
    /\ bookmarksTable \in SUBSET SavedRows
    /\ page \in {"ContestsTabs", "Bookmarks"}
    /\ contests = {}
    /\ loading = TRUE
    /\ error = NoError
    /\ runs = [r \in RunIds |-> IdleRun]
    /\ userId = NoUser
    /\ bookmarkedIds = {}
    /\ toggles = [t \in Slots |-> IdleToggle]
    /\ mount = "getUser"
    /\ toast = NoToast
    /\ sample = [start_time |-> 0, end_time |-> 0]
    /\ seen = Seen(0, 0, 0)
    /\ youtube = IdleYoutube
    /\ isAdmin = FALSE
    /\ solutionsTable = {}
    /\ NoAdminPage

NextSaved ==
    \/ \E u \in Users : SignIn(u)
    \/ SignOut
    \/ TabsGetUser
    \/ TabsSelectContests
    \/ TabsSelectBookmarks
    \/ BookmarksGetUser
    \/ BookmarksSelect
    \/ \E t \in Slots :
         \/ \E c \in ContestIds : TabsToggle(t, c)
         \/ TabsStore(t)
         \/ TabsResume(t)
         \/ \E c \in ContestIds : RemoveBookmark(t, c)
         \/ RemoveStore(t)
         \/ RemoveResume(t)

SpecSaved == InitSaved /\ [][NextSaved]_vars

\* ---------------------------------------------- time remaining, per page

MsPerDay == 86400000
MsPerHour == 3600000
MsPerMinute == 60000

\* What a card shows for the time: the template used and the numbers put
\* into it, in order.
TimeText(text, nums) == [text |-> text, nums |-> nums]

\* part_003 getTimeRemaining(startTime) at instant now.
TabsTimeRemaining(start, now) ==
    LET diffMs == start - now
    IN IF diffMs <= 0 THEN TimeText("Started", <<>>)
       ELSE TimeText("d h m", <<diffMs \div MsPerDay,
                                (diffMs % MsPerDay) \div MsPerHour,
                                (diffMs % MsPerHour) \div MsPerMinute>>)

\* part_004 getTimeRemaining(startTime, endTime) at instant now.
SyncTimeRemaining(start, end, now) ==
    IF start > now
    THEN LET diffMs == start - now
             days == diffMs \div MsPerDay
             hours == (diffMs % MsPerDay) \div MsPerHour
             minutes == (diffMs % MsPerHour) \div MsPerMinute
         IN IF days > 0 THEN TimeText("d h m", <<days, hours, minutes>>)
            ELSE TimeText("h m", <<hours, minutes>>)
    ELSE IF end > now THEN TimeText("Ongoing", <<>>) ELSE TimeText("Ended", <<>>)

\* part_008 getTimeStatus(startTime) at instant now.
BookmarksTimeStatus(start, now) ==
    LET diffMs == start - now
    IN IF diffMs > 0
       THEN TimeText("Starts in d h", <<diffMs \div MsPerDay, (diffMs % MsPerDay) \div MsPerHour>>)
       ELSE TimeText("Ended", <<>>)

\* Start instants around the minute, hour and day boundaries, and the
\* instants a card is rendered at; every contest lasts one hour.
TimeStarts == {0, 59999, 60000, 3599999, 3660000, 86399999, 86400000, 90061000}
TimeNows == {0, 60000, 3600000, 90000000}

TimeFrame ==
    UNCHANGED <<clock, session, contestsTable, bookmarksTable, page, contests, loading, error,
                runs, userId, bookmarkedIds, toggles, mount, toast, sample, youtube, isAdmin,
                solutionsTable, adminVars>>

\* The part_003 page renders the card of the sampled contest.
RenderTabsTime ==
    /\ page = "ContestsTabs"
    /\ seen' = TabsTimeRemaining(sample.start_time, sample.now)
    /\ TimeFrame

\* The part_004 page renders it.
RenderSyncTime ==
    /\ page = "ContestsSync"
    /\ seen' = SyncTimeRemaining(sample.start_time, sample.end_time, sample.now)
    /\ TimeFrame

\* The Bookmarks page renders it.
RenderBookmarksTime ==
    /\ page = "Bookmarks"
    /\ seen' = BookmarksTimeStatus(sample.start_time, sample.now)
    /\ TimeFrame

InitTime ==
    /\ clock = 0
    /\ session = NoUser
    /\ contestsTable = {}
    /\ bookmarksTable = {}
    /\ page \in {"ContestsTabs", "ContestsSync", "Bookmarks"}
    /\ contests = {}
    /\ loading = FALSE
    /\ error = NoError
    /\ runs = [r \in RunIds |-> IdleRun]
    /\ userId = NoUser
    /\ bookmarkedIds = {}
    /\ toggles = [t \in Slots |-> IdleToggle]
    /\ mount = "ready"
    /\ toast = NoToast
    /\ \E s \in TimeStarts, n \in TimeNows :
         sample = [start_time |-> s, end_time |-> s + MsPerHour, now |-> n]
    /\ seen = TimeText("", <<>>)
    /\ youtube = IdleYoutube
    /\ isAdmin = FALSE
    /\ solutionsTable = {}
    /\ NoAdminPage

NextTime == RenderTabsTime \/ RenderSyncTime \/ RenderBookmarksTime

SpecTime == InitTime /\ [][NextTime]_vars

\* --------------------------------------- Contests.tsx: toggleBookmark

\* { contest_id, title, platform, start_time, duration }: the bookmarks row
\* toggleBookmark builds from a displayed contest.
MockBookmarkRow(c) ==
    [contest_id |-> c.id, title |-> c.title, platform |-> c.platform,
     start_time |-> c.startTime, duration |-> c.duration]

\* upsert(rows, { onConflict: 'contest_id' })
UpsertMockBookmarks(table, rows) ==
    {b \in table : ~ \E r \in rows : r.contest_id = b.contest_id} \cup rows

\* delete().eq('contest_id', id)
DeleteMockBookmark(table, id) == {b \in table : b.contest_id # id}

\* contests.map(c => c.id === id ? { ...c, isBookmarked: !c.isBookmarked } : c)
FlipMock(list, id) ==
    {IF c.id = id THEN [c EXCEPT !.isBookmarked = ~ c.isBookmarked] ELSE c : c \in list}

\* The cards whose bookmark button is pressed.
MockToggleIds == {"cf1", "cf2"}

\* toggleBookmark(id) up to its first await: setContests(updatedContests) and
\* the upsert request; the invocation keeps the contests of its render.
MockToggle(t, id) ==
    /\ page = "ContestsMock"
    /\ toggles[t].pc = "idle"
    /\ \E c \in contests : c.id = id
    /\ contests' = FlipMock(contests, id)
    /\ toggles' = [toggles EXCEPT ![t] =
         [pc |-> "upsert", cid |-> id, userId |-> NoUser, op |-> "none",
          closure |-> contests, failed |-> FALSE]]
    /\ UNCHANGED <<session, bookmarksTable, userId, bookmarkedIds, mount, toast>>
    /\ BookmarkFrame

\* The store executes the upsert of the bookmarked contests, or fails (the
\* result is not read); then contests.find(c => c.id === id && !c.isBookmarked)
\* over the kept contests decides whether the delete is issued.
MockToggleUpsert(t) ==
    /\ page = "ContestsMock"
    /\ toggles[t].pc = "upsert"
    /\ LET updatedContests == FlipMock(toggles[t].closure, toggles[t].cid)
           bookmarkedContests == {c \in updatedContests : c.isBookmarked}
           unbookmarked == \E c \in toggles[t].closure : c.id = toggles[t].cid /\ ~ c.isBookmarked
       IN \E ok \in BOOLEAN :
            /\ bookmarksTable' =
                 IF ok THEN UpsertMockBookmarks(bookmarksTable,
                                                {MockBookmarkRow(c) : c \in bookmarkedContests})
                 ELSE bookmarksTable
            /\ toggles' = IF unbookmarked
                          THEN [toggles EXCEPT ![t].pc = "delete", ![t].failed = ~ ok]
                          ELSE [toggles EXCEPT ![t] = [IdleToggle EXCEPT !.failed = ~ ok]]
    /\ UNCHANGED <<session, contests, userId, bookmarkedIds, mount, toast>>
    /\ BookmarkFrame

\* The store executes the delete, or fails (the result is not read).
MockToggleDelete(t) ==
    /\ page = "ContestsMock"
    /\ toggles[t].pc = "delete"
    /\ \E ok \in BOOLEAN :
         /\ bookmarksTable' = IF ok THEN DeleteMockBookmark(bookmarksTable, toggles[t].cid)
                              ELSE bookmarksTable
         /\ toggles' = [toggles EXCEPT ![t] =
              [IdleToggle EXCEPT !.failed = toggles[t].failed \/ ~ ok]]
    /\ UNCHANGED <<session, contests, userId, bookmarkedIds, mount, toast>>
    /\ BookmarkFrame

\* The Contests.tsx page showing the mock contests over an empty bookmarks
\* table.
InitMockBookmarks ==
    /\ clock = 0
    /\ session = NoUser
    /\ contestsTable = {}
    /\ bookmarksTable = {}
    /\ page = "ContestsMock"
    /\ contests = {MockShown(c, NoLink) : c \in MockContests}
    /\ loading = FALSE
    /\ error = NoError
    /\ runs = [r \in RunIds |-> IdleRun]
    /\ userId = NoUser
    /\ bookmarkedIds = {}
    /\ toggles = [t \in Slots |-> IdleToggle]
    /\ mount = "ready"
    /\ toast = NoToast
    /\ sample = [start_time |-> 0, end_time |-> 0]
    /\ seen = Seen(0, 0, 0)
    /\ youtube = IdleYoutube
    /\ isAdmin = FALSE
    /\ solutionsTable = {}
    /\ NoAdminPage

NextMockBookmarks ==
    \E t \in Slots :
        \/ \E id \in MockToggleIds : MockToggle(t, id)
        \/ MockToggleUpsert(t)
        \/ MockToggleDelete(t)

SpecMockBookmarks == InitMockBookmarks /\ [][NextMockBookmarks]_vars

\* ------------------------------------------- Dashboard.tsx: Admin page

MaxSyncs == 2

\* The role column of the profiles row of user u.
ProfileRole(u) == IF u \in Admins THEN "admin" ELSE "user"

\* A check of the read's error alone.
AccessGrantedWithoutRole(p) == ~ p.error

\* The negation of: profileError || profileData?.role !== 'admin'
AccessGranted(p) == ~ (p.error \/ p.role # "admin")

\* const predefinedPlaylists
PredefinedPlaylists ==
    [LeetCode |-> "PLcXpkI9A-RZI6FhydNz3JBt_-p_i25Cbr",
     Codeforces |-> "PLcXpkI9A-RZLUfBSNp-YQBCOezZKbDSgB",
     CodeChef |-> "PLcXpkI9A-RZIZ6lsE0KCcLWeKNoG45fYr"]

\* The platforms whose sync button is pressed.
SyncPlatforms == {"LeetCode", "Codeforces"}

\* A youtube_playlists row; the store generates the id of an inserted row.
PlaylistRow(platform, at) ==
    [id |-> <<"uuid", platform>>, platform |-> platform,
     playlist_id |-> PredefinedPlaylists[platform], last_synced_at |-> at]

\* A syncPlaylist invocation: its position, the platform, the request it
\* issued (operation, row id, timestamp) and the store's answer.
IdleSync == [pc |-> "idle", platform |-> "", op |-> "none", id |-> <<"", "">>,
             at |-> 0, result |-> "none"]

SyncSlots == 1..MaxSyncs

AdminFrame ==
    UNCHANGED <<bookmarksTable, page, error, runs, bookmarkedIds, toggles, sample, seen,
                youtube, isAdmin, solutionsTable>>

\* fetchData: getUser; without a user throw new Error('Not signed in') goes
\* to the catch (toast), finally setIsLoading(false).
AdminGetUser ==
    /\ page = "Admin"
    /\ mount = "getUser"
    /\ userId' = session
    /\ IF session = NoUser
       THEN /\ toast' = "Failed to load admin data"
            /\ loading' = FALSE
            /\ mount' = "ready"
       ELSE /\ mount' = "profile"
            /\ UNCHANGED <<toast, loading>>
    /\ UNCHANGED <<clock, session, contestsTable, contests, adminVars>>
    /\ AdminFrame

\* fetchData: select('role').eq('id', userId).single() on profiles, then the
\* access check; a denial toasts, returns, and finally ends the loading.
AdminReadProfile ==
    /\ page = "Admin"
    /\ mount = "profile"
    /\ \E ok \in BOOLEAN :
         profile' = IF ok THEN [error |-> FALSE, role |-> ProfileRole(userId)]
                    ELSE [error |-> TRUE, role |-> "none"]
    /\ IF AccessGranted(profile')
       THEN /\ isTeamMember' = TRUE
            /\ mount' = "contests"
            /\ UNCHANGED <<toast, loading>>
       ELSE /\ isTeamMember' = FALSE
            /\ toast' = "Access denied: Team members only"
            /\ loading' = FALSE
            /\ mount' = "ready"
    /\ UNCHANGED <<clock, session, contestsTable, contests, userId, playlistsTable,
                   playlists, syncs>>
    /\ AdminFrame

\* fetchData: the contests with end_time before now; an error throws to the
\* catch (toast), finally setIsLoading(false).
AdminSelectContests ==
    /\ page = "Admin"
    /\ mount = "contests"
    /\ \E ok \in BOOLEAN :
         IF ok
         THEN /\ contests' = {c \in contestsTable : c.end_time < clock}
              /\ mount' = "playlists"
              /\ UNCHANGED <<toast, loading>>
         ELSE /\ contests' = contests
              /\ toast' = "Failed to load admin data"
              /\ loading' = FALSE
              /\ mount' = "ready"
    /\ UNCHANGED <<clock, session, contestsTable, userId, adminVars>>
    /\ AdminFrame

\* fetchData: select('*') on youtube_playlists, then finally.
AdminSelectPlaylists ==
    /\ page = "Admin"
    /\ mount = "playlists"
    /\ \E ok \in BOOLEAN :
         IF ok
         THEN /\ playlists' = playlistsTable
              /\ toast' = toast
         ELSE /\ playlists' = playlists
              /\ toast' = "Failed to load admin data"
    /\ loading' = FALSE
    /\ mount' = "ready"
    /\ UNCHANGED <<clock, session, contestsTable, contests, userId, playlistsTable,
                   isTeamMember, profile, syncs>>
    /\ AdminFrame

\* syncPlaylist(platform) up to its await: the button is rendered for team
\* members; existing is looked up in the playlists state, and the update or
\* insert request carries new Date().
SyncPlaylist(k, platform) ==
    /\ page = "Admin"
    /\ isTeamMember
    /\ syncs[k].pc = "idle"
    /\ LET existing == {p \in playlists : p.platform = platform}
       IN syncs' = [syncs EXCEPT ![k] =
            [pc |-> "store", platform |-> platform,
             op |-> IF existing # {} THEN "update" ELSE "insert",
             id |-> IF existing # {} THEN (CHOOSE p \in existing : TRUE).id ELSE <<"", "">>,
             at |-> clock, result |-> "none"]]
    /\ UNCHANGED <<clock, session, contestsTable, contests, userId, loading, mount, toast,
                   playlistsTable, isTeamMember, playlists, profile>>
    /\ AdminFrame

\* The store executes the request: update ... eq('id', existing.id), or an
\* insert, which UNIQUE(platform, playlist_id) rejects when the pair is
\* already there; any request can also fail on its way.
SyncPlaylistStore(k) ==
    /\ page = "Admin"
    /\ syncs[k].pc = "store"
    /\ \E ok \in BOOLEAN :
         LET s == syncs[k]
             row == PlaylistRow(s.platform, s.at)
             taken == \E p \in playlistsTable :
                         p.platform = row.platform /\ p.playlist_id = row.playlist_id
         IN IF ~ ok
            THEN /\ playlistsTable' = playlistsTable
                 /\ syncs' = [syncs EXCEPT ![k].pc = "resume", ![k].result = "failed"]
            ELSE IF s.op = "update"
            THEN /\ playlistsTable' =
                      {IF p.id = s.id THEN [p EXCEPT !.last_synced_at = s.at] ELSE p :
                         p \in playlistsTable}
                 /\ syncs' = [syncs EXCEPT ![k].pc = "resume", ![k].result = "ok"]
            ELSE IF taken
            THEN /\ playlistsTable' = playlistsTable
                 /\ syncs' = [syncs EXCEPT ![k].pc = "resume", ![k].result = "duplicate key"]
            ELSE /\ playlistsTable' = playlistsTable \cup {row}
                 /\ syncs' = [syncs EXCEPT ![k].pc = "resume", ![k].result = "ok"]
    /\ UNCHANGED <<clock, session, contestsTable, contests, userId, loading, mount, toast,
                   isTeamMember, playlists, profile>>
    /\ AdminFrame

\* After the await: if (error) throw error -> toast.error; else toast.success.
SyncPlaylistResume(k) ==
    /\ page = "Admin"
    /\ syncs[k].pc = "resume"
    /\ toast' = IF syncs[k].result = "ok" THEN "Sync triggered for playlist"
                ELSE "Failed to sync playlist"
    /\ syncs' = [syncs EXCEPT ![k] = IdleSync]
    /\ UNCHANGED <<clock, session, contestsTable, contests, userId, loading, mount,
                   playlistsTable, isTeamMember, playlists, profile>>
    /\ AdminFrame

\* Time passes on the Admin page.
AdminTick ==
    /\ page = "Admin"
    /\ clock < MaxClock * RefreshMs
    /\ clock' = clock + RefreshMs
    /\ UNCHANGED <<session, contestsTable, contests, userId, loading, mount, toast, adminVars>>
    /\ AdminFrame

\* The Admin page before its mount effect ran, for a visitor, a user or an
\* admin, before or after cf_1 ended, over a playlists table that holds the
\* LeetCode row or no row.
InitAdmin ==
    /\ clock \in {0, 3 * RefreshMs}
    /\ session \in {NoUser} \cup Users \cup Admins
    /\ contestsTable = SyncedRows
    /\ bookmarksTable = {}
    /\ page = "Admin"
    /\ contests = {}
    /\ loading = TRUE
    /\ error = NoError
    /\ runs = [r \in RunIds |-> IdleRun]
    /\ userId = NoUser
    /\ bookmarkedIds = {}
    /\ toggles = [t \in Slots |-> IdleToggle]
    /\ mount = "getUser"
    /\ toast = NoToast
    /\ sample = [start_time |-> 0, end_time |-> 0]
    /\ seen = Seen(0, 0, 0)
    /\ youtube = IdleYoutube
    /\ isAdmin = FALSE
    /\ solutionsTable = {}
    /\ playlistsTable \in {{}, {PlaylistRow("LeetCode", 0)}}
    /\ isTeamMember = FALSE
    /\ playlists = {}
    /\ profile = NoProfile
    /\ syncs = [k \in SyncSlots |-> IdleSync]

NextAdmin ==
    \/ \E u \in Users \cup Admins : SignIn(u)
    \/ SignOut
    \/ AdminGetUser
    \/ AdminReadProfile
    \/ AdminSelectContests
    \/ AdminSelectPlaylists
    \/ \E k \in SyncSlots :
         \/ \E platform \in SyncPlatforms : SyncPlaylist(k, platform)
         \/ SyncPlaylistStore(k)
         \/ SyncPlaylistResume(k)
    \/ AdminTick

SpecAdmin == InitAdmin /\ [][NextAdmin]_vars

\* ------------------------------------------------------------ properties

\* C1: a refresh cycle's upsert never clears or changes a persisted non-null
\* solution_link: the row keeps the same link after the upsert.
C1_SolutionLinkPreserved ==
    [][\A r \in RunIds :
         UpsertContests(r) =>
           \A row \in contestsTable :
             row.solution_link # NoLink =>
               \E kept \in contestsTable' :
                 kept.id = row.id /\ kept.solution_link = row.solution_link]_vars

\* C2: the failure of a single upstream source does not abort the cycle: a run
\* never ends without having issued the upsert of what the other sources gave.
C2_SourceFailureDoesNotAbort ==
    \A r \in RunIds : runs[r].pc = "done" => runs[r].upsert # "no"

Started == {r \in RunIds : runs[r].pc # "idle"}
Latest == CHOOSE r \in Started : \A q \in Started : q <= r

\* C3: last write wins by start time: once every started run has finished, the
\* persisted rows of the latest-started run's batch are those it upserted.
C3_LastWriteWinsByStart ==
    (/\ Started # {}
     /\ \A r \in Started : runs[r].pc = "done"
     /\ runs[Latest].upsert = "ok")
    => \A b \in AllContests(runs[Latest]) : b \in contestsTable

\* C4: the bookmarks table never holds two rows for one (user, contest) pair.
C4_OneBookmarkPerPair ==
    \A b1 \in bookmarksTable : \A b2 \in bookmarksTable :
      (b1.user_id = b2.user_id /\ b1.contest_id = b2.contest_id) => b1 = b2

\* C5: a toggle's store operation that adds a bookmark already persisted, or
\* removes one that is not persisted, leaves the bookmarks table unchanged.
C5_AddRemoveIdempotent ==
    [][\A t \in Slots :
         (TabsStore(t) \/ SyncToggleStore(t)) =>
           ((\/ /\ toggles[t].op = "add"
                /\ HasBookmark(toggles[t].userId, toggles[t].cid)
             \/ /\ toggles[t].op = "remove"
                /\ ~ HasBookmark(toggles[t].userId, toggles[t].cid))
            => bookmarksTable' = bookmarksTable)]_vars

\* C6: with nobody signed in a toggle changes neither the displayed contests
\* nor the bookmarks table.
C6_SignedOutToggleWritesNothing ==
    [][\A t \in Slots :
         /\ (SyncToggleGotUser(t) /\ session = NoUser) => contests' = contests
         /\ ((TabsStore(t) \/ SyncToggleStore(t))
               /\ toggles[t].userId \in {NoUser, DefaultUser})
            => bookmarksTable' = bookmarksTable]_vars

\* C7: a contest is displayed as bookmarked only if the signed-in user has a
\* persisted bookmark row for it.
C7_BookmarksIsolated ==
    \A c \in contests :
      c.isBookmarked =>
        \E b \in bookmarksTable : b.user_id = session /\ b.contest_id = c.id

\* C8: for a contest with start_time <= end_time every page's status is
\* upcoming iff now < start, current iff start <= now < end, past iff now >= end.
C8_StatusDefinition ==
    sample.start_time <= sample.end_time =>
      \A s \in {seen.contests, seen.calendar} :
        /\ s = "upcoming" <=> clock < sample.start_time
        /\ s = "current" <=> (sample.start_time <= clock /\ clock < sample.end_time)
        /\ s = "past" <=> clock >= sample.end_time

\* Position of a status in the lifecycle upcoming -> current -> past.
Rank(s) == CASE s = "upcoming" -> 0 [] s = "current" -> 1 [] s = "past" -> 2

\* C9: evaluated at a later now, the status of a contest never moves back in
\* the order upcoming, current, past.
C9_StatusMonotonic ==
    [][/\ Rank(seen'.contests) >= Rank(seen.contests)
       /\ Rank(seen'.calendar) >= Rank(seen.calendar)]_vars

\* C9 witness: a contest that had not started at now = 0 is past at a later now.
C9_Witness ==
    /\ page = "none"
    /\ sample.start_time > 0
    /\ sample.start_time < sample.end_time
    /\ clock > sample.end_time
    /\ seen.contests = "past"

\* C11: the contests table never holds two rows for the same contest of a
\* platform: rows that agree on platform, name and start describe one contest
\* of that platform and are one row.
C11_OneRowPerContest ==
    \A r1 \in contestsTable : \A r2 \in contestsTable :
      (r1.platform = r2.platform /\ r1.name = r2.name /\ r1.start_time = r2.start_time)
        => r1.id = r2.id

\* C12: a contest's id is a function of its platform and platform-native id
\* only: announced again under another name or start it keeps its id, and
\* contests with different (platform, native id) pairs get different ids.
C12_IdFromNativeId ==
    [][\A view \in {"sync", "kontests"} :
         IF sample'.platform = sample.platform /\ sample'.native = sample.native
         THEN seen'[view].id = seen[view].id
         ELSE seen'[view].id # seen[view].id]_vars

\* C13: the refresh cycle is additive: no step removes the row of a persisted
\* id, and the upsert leaves every row whose id is absent from the batch as
\* it was.
C13_RefreshAdditive ==
    [][/\ \A row \in contestsTable : \E kept \in contestsTable' : kept.id = row.id
       /\ \A r \in RunIds :
            UpsertContests(r) =>
              \A row \in contestsTable :
                row.id \notin {b.id : b \in AllContests(runs[r])} => row \in contestsTable']_vars

\* C13 witness: a run whose LeetCode fetch failed has upserted its batch over
\* a table holding the LeetCode row of the other run, and the row is there.
C13_Witness ==
    \E r \in RunIds :
      /\ runs[r].upsert = "ok"
      /\ runs[r].lc = {}
      /\ runs[r].cf # {}
      /\ runs[r].cf \subseteq contestsTable
      /\ \E other \in RunIds \ {r} :
           /\ runs[other].upsert = "ok"
           /\ runs[other].lc # {}
           /\ runs[other].lc \subseteq contestsTable
           /\ runs[other].cf # runs[r].cf

C15_InvalidDroppedAlone ==
    page = "listing" =>
      /\ \A c \in sample.cc :
           IF /\ InvalidDate \notin {c.contest_start_date, c.contest_end_date}
              /\ c.contest_end_date >= c.contest_start_date
           THEN CcContest(c, clock) \in seen.cc
           ELSE ~ \E row \in seen.cc : row.id = <<"cc", c.contest_code>>
      /\ \A c \in sample.lc :
           IF c.startTime # InvalidDate
           THEN LcContest(c, clock) \in seen.lc
           ELSE ~ \E row \in seen.lc : row.id = <<"lc", c.titleSlug>>

\* C16: every normalized record's duration is the whole number of minutes in
\* end_time - start_time, on both pages and for every source, the LeetCode
\* default included.
C16_DurationInMinutes ==
    page = "normalizer" =>
      /\ seen.sync.duration = (seen.sync.end_time - seen.sync.start_time) \div 60000
      /\ seen.kontests.duration.num =
           ((seen.kontests.end_time - seen.kontests.start_time) \div 60000)
             * seen.kontests.duration.den

\* C17: a step that changes a persisted solution link (contests.solution_link
\* or a contest_solutions row) is taken only while the signed-in identity is
\* an admin.
C17_LinkWritesByAdminOnly ==
    [][(\/ {<<row.id, row.solution_link>> : row \in contestsTable'}
            # {<<row.id, row.solution_link>> : row \in contestsTable}
        \/ solutionsTable' # solutionsTable)
       => session \in Admins]_vars

\* C18: a run does not fail fast: it ends only after the fetch of every
\* source has been issued and has settled.
C18_AllFetchesSettle ==
    \A r \in RunIds :
      (page = "ContestsSync" /\ runs[r].pc = "done") => runs[r].settled = Sources

\* C19: a run that publishes a partial batch reports the failure: when the
\* fetch of a source failed, the page's error is set once the run has
\* published its list.
C19_FailedSourcesReported ==
    [][\A r \in RunIds :
         (PublishContests(r) /\ runs[r].failed # {}) => error' # NoError]_vars

\* C20: a store failure during a cycle never puts a list built from the
\* failed read on display: a step that publishes leaves the displayed list
\* as it was or shows the list that successful reads of the contests and
\* bookmarks tables give.
C20_FailedCycleKeepsList ==
    [][\A r \in RunIds :
         (PublishContests(r) \/ PublishCached(r)) =>
           contests' \in {contests,
                          WithBookmarks(runs[r].snap, BookmarkSet(TRUE), runs[r].now)}]_vars

\* C10: no persisted contests row carries a status value.
C10_StatusNeverPersisted ==
    \A row \in contestsTable : row.status = NoStatus

\* C21: after a sign-in or sign-out no toggle is issued under the previous
\* identity: the store request of a part_003 toggle carries the user id of
\* the identity signed in when the toggle is invoked.
C21_ToggleUnderCurrentIdentity ==
    [][\A t \in Slots : \A c \in ContestIds :
         (TabsToggle(t, c) /\ toggles'[t].pc = "store")
           => toggles'[t].userId = session]_vars

\* C22: the next fetch corrects the displayed bookmark flags: when a refresh
\* cycle that started with no toggle pending publishes what it read from the
\* bookmarks table, and no toggle is pending then, each displayed contest is
\* flagged exactly when the current user has a persisted bookmark for it.
C22_FetchCorrectsFlags ==
    [][\A r \in RunIds :
         (/\ PublishContests(r)
          /\ runs[r].quiet
          /\ \A t \in Slots : toggles[t].pc = "idle"
          /\ contests' = WithBookmarks(runs[r].snap, BookmarkSet(TRUE), runs[r].now))
         => \A c \in contests' : c.isBookmarked <=> HasBookmark(session, c.id)]_vars

\* C23: for the signed-in user, a successful part_003 toggle of a contest
\* shown as not bookmarked leaves a store from which a load of that user's
\* bookmarks contains the contest id; a successful toggle or removeBookmark
\* of a contest shown as bookmarked leaves one from which it does not.
C23_LoadReflectsToggle ==
    [][\A t \in Slots :
         (/\ TabsStore(t) \/ RemoveStore(t)
          /\ ~ toggles'[t].failed
          /\ toggles[t].userId = session)
         => /\ (toggles[t].cid \in LoadBookmarks(bookmarksTable', session))
                 <=> toggles[t].op = "add"
            /\ (\E c \in LoadBookmarkedContests(bookmarksTable', session) : c.id = toggles[t].cid)
                 <=> toggles[t].op = "add"]_vars

\* Next to the other user's row in the store, an addition by u1 that
\* succeeded and a removal that succeeded, both about to resume.
C23_Witness ==
    /\ session = "u1"
    /\ OtherUsersRow \in bookmarksTable
    /\ \E t \in Slots :
         /\ toggles[t].pc = "resume"
         /\ ~ toggles[t].failed
         /\ toggles[t].userId = "u1"
         /\ toggles[t].op = "add"
         /\ HasBookmark("u1", toggles[t].cid)
    /\ \E t \in Slots :
         /\ toggles[t].pc = "resume"
         /\ ~ toggles[t].failed
         /\ toggles[t].op = "remove"
         /\ ~ HasBookmark("u1", toggles[t].cid)

\* C24: on every page, the time remaining shown for a contest that has not
\* started is d = start_time - now decomposed by truncation: days =
\* floor(d / 86400000), 0 <= hours < 24, 0 <= minutes < 60 and
\* days*1440 + hours*60 + minutes = floor(d / 60000); the pages show the same
\* three numbers (a page may leave out a zero days).
C24_TimeRemainingTruncates ==
    (seen.text # "" /\ sample.start_time > sample.now) =>
        LET d == sample.start_time - sample.now
            days == d \div MsPerDay
        IN \E hours \in 0..23, minutes \in 0..59 :
             /\ days * 1440 + hours * 60 + minutes = d \div MsPerMinute
             /\ \/ seen.nums = <<days, hours, minutes>>
                \/ days = 0 /\ seen.nums = <<hours, minutes>>

\* C25: when a Contests.tsx toggleBookmark(id) whose store calls succeeded
\* completes with no other toggle pending, the bookmarks table holds a row
\* for id exactly when the displayed contest is flagged isBookmarked.
C25_RowIffFlag ==
    [][\A t \in Slots :
         (/\ MockToggleUpsert(t) \/ MockToggleDelete(t)
          /\ toggles'[t].pc = "idle"
          /\ ~ toggles'[t].failed
          /\ \A o \in Slots \ {t} : toggles[o].pc = "idle" /\ ~ toggles[o].failed)
         => ((\E b \in bookmarksTable' : b.contest_id = toggles[t].cid)
               <=> \E c \in contests' : c.id = toggles[t].cid /\ c.isBookmarked)]_vars

\* C26: when the store operation of a bookmark toggle returned an error, the
\* toggle reports a failure, not a success, and the contest is displayed as
\* it was before the toggle: part_003 leaves bookmarkedIds alone, part_004
\* shows the flag opposite to the one its request was meant to store.
C26_FailedToggleLeavesDisplay ==
    [][\A t \in Slots :
         ((TabsResume(t) \/ SyncToggleResume(t)) /\ toggles[t].failed)
         => /\ toast' = "Failed to update bookmark"
            /\ page = "ContestsTabs" => bookmarkedIds' = bookmarkedIds
            /\ page = "ContestsSync" =>
                 \A x \in contests' :
                    x.id = toggles[t].cid => (x.isBookmarked <=> toggles[t].op = "remove")]_vars

\* C27: whenever the part_004 page renders its list (a state change that
\* leaves loading false), every contest the 'upcoming' filter lists, i.e.
\* every displayed contest whose status is 'upcoming', has a start_time later
\* than the clock, and its time remaining is neither 'Ongoing' nor 'Ended'.
C27_UpcomingNotStarted ==
    [][(/\ page = "ContestsSync"
        /\ <<contests, loading, error>>' # <<contests, loading, error>>
        /\ ~ loading')
       => \A c \in contests' :
            c.status = "upcoming" =>
              /\ c.start_time > clock'
              /\ SyncTimeRemaining(c.start_time, c.end_time, clock').text
                   \notin {"Ongoing", "Ended"}]_vars

\* C28: the Admin page is team-only: isTeamMember is true, and the loads of
\* past contests and playlists are issued or have delivered rows, only when
\* the profiles read of the user found at mount answered without error with
\* role 'admin'; otherwise isTeamMember is false (the access-denied view);
\* and loading is false once fetchData has finished.
C28_TeamOnly ==
    page = "Admin" =>
      /\ isTeamMember => (userId # NoUser /\ ~ profile.error /\ profile.role = "admin"
                          /\ ProfileRole(userId) = "admin")
      /\ (mount \in {"contests", "playlists"} \/ contests # {} \/ playlists # {})
           => isTeamMember
      /\ mount = "ready" => ~ loading

\* An admin's page that finished loading past contests and playlist rows.
C28_Witness ==
    /\ page = "Admin"
    /\ mount = "ready"
    /\ isTeamMember
    /\ contests # {}
    /\ playlists # {}
    /\ ~ loading

\* C30: no syncPlaylist invocation fails on the uniqueness constraint of
\* youtube_playlists: the store never answers a sync's request with a
\* duplicate-key error.
C30_SyncNeverHitsUniqueness ==
    [][\A k \in SyncSlots :
         SyncPlaylistStore(k) => syncs'[k].result # "duplicate key"]_vars

\* C29: when two part_004 toggles for different contests overlap and the
\* store has executed both requests successfully, each of the two contests is
\* displayed with the flag its request wrote: bookmarked after an upsert, not
\* bookmarked after a delete.
C29_NoLostFlip ==
    page = "ContestsSync" =>
      \A a, b \in Slots :
        (/\ a # b
         /\ toggles[a].pc = "resume" /\ toggles[b].pc = "resume"
         /\ ~ toggles[a].failed /\ ~ toggles[b].failed
         /\ toggles[a].cid # toggles[b].cid)
        => \A t \in {a, b} : \A x \in contests :
             x.id = toggles[t].cid => (x.isBookmarked <=> toggles[t].op = "add")

====
